---- MODULE Spec2Model ----
(***************************************************************************)
(* A model of the request handlers of the calendars backend                *)
(* (suitenumerique/calendars, src/backend/core): the CalDAV reverse proxy, *)
(* the subscription-token API with the public iCal export, and the RSVP    *)
(* view.  Text that the code inspects character by character (paths,       *)
(* emails) is a sequence of one-character strings; text the code only      *)
(* passes along is a plain string.                                         *)
(***************************************************************************)
EXTENDS Integers, Sequences, FiniteSets, TLC

VARIABLES
    settings,   \* django.conf.settings: fixed for the life of the process
    user_table, \* the rows of the User table, by primary key
    tokens,     \* the rows of the CalendarSubscriptionToken table
    uuids,      \* how many uuid4 values have been drawn so far
    inflight,   \* per worker: the request it holds and how far it has got
    caldav      \* the events stored by the CalDAV server

vars == <<settings, user_table, tokens, uuids, inflight, caldav>>

-----------------------------------------------------------------------------
(* Text helpers *)

\* None, a missing dict key, a missing query parameter.
None == "<None>"

\* str + str
Cat(s, t) == s \o t

\* str.startswith / str.endswith
StartsWith(s, p) == Len(s) >= Len(p) /\ SubSeq(s, 1, Len(p)) = p
EndsWith(s, p) == Len(s) >= Len(p) /\ SubSeq(s, Len(s) - Len(p) + 1, Len(s)) = p

\* Character classes: '/', anything but '/', white space, and the class
\* [a-zA-Z0-9-] of CALDAV_PATH_PATTERN.
TAB == "TAB"
LF == "LF"
Whitespace == {" ", TAB, LF}
IdChars ==
    {"a", "b", "c", "d", "e", "f", "g", "h", "i", "j", "k", "l", "m", "n", "o",
     "p", "q", "r", "s", "t", "u", "v", "w", "x", "y", "z",
     "A", "B", "C", "D", "E", "F", "G", "H", "I", "J", "K", "L", "M", "N", "O",
     "P", "Q", "R", "S", "T", "U", "V", "W", "X", "Y", "Z",
     "0", "1", "2", "3", "4", "5", "6", "7", "8", "9", "-"}
InClass(c, class) ==
    CASE class = "slash" -> c = "/"
      [] class = "not-slash" -> c # "/"
      [] class = "space" -> c \in Whitespace
      [] class = "id" -> c \in IdChars

\* The length of the longest run of characters of `class` that starts at
\* s[i], and of the longest that ends at the end of s.
RunLength(s, i, class) ==
    IF i > Len(s) THEN 0
    ELSE (CHOOSE j \in i..(Len(s) + 1) :
            /\ j = Len(s) + 1 \/ ~InClass(s[j], class)
            /\ \A k \in i..(j - 1) : InClass(s[k], class)) - i
RunLengthBack(s, class) ==
    Len(s) - (CHOOSE j \in 0..Len(s) :
                /\ j = 0 \/ ~InClass(s[j], class)
                /\ \A k \in (j + 1)..Len(s) : InClass(s[k], class))

\* str.lstrip("/"), str.strip("/")
LStripSlash(s) == SubSeq(s, RunLength(s, 1, "slash") + 1, Len(s))
RStripSlash(s) == SubSeq(s, 1, Len(s) - RunLengthBack(s, "slash"))
StripSlash(s) == RStripSlash(LStripSlash(s))

\* str.strip(), which rest_framework's CharField applies to its input
\* (trim_whitespace defaults to True).
LStrip(s) == SubSeq(s, RunLength(s, 1, "space") + 1, Len(s))
RStrip(s) == SubSeq(s, 1, Len(s) - RunLengthBack(s, "space"))
Strip(s) == RStrip(LStrip(s))

\* str.split("/"): the pieces between the slashes, empty pieces included.
SplitSlash(s) ==
    LET slashes == {i \in 1..Len(s) : s[i] = "/"}
        nth(k) == IF k = 0 THEN 0
                  ELSE IF k = Cardinality(slashes) + 1 THEN Len(s) + 1
                  ELSE CHOOSE i \in slashes : Cardinality({j \in slashes : j < i}) = k - 1
    IN  [k \in 1..(Cardinality(slashes) + 1) |-> SubSeq(s, nth(k - 1) + 1, nth(k) - 1)]

\* str.lower()
UpperCase ==
    <<"A", "B", "C", "D", "E", "F", "G", "H", "I", "J", "K", "L", "M",
      "N", "O", "P", "Q", "R", "S", "T", "U", "V", "W", "X", "Y", "Z">>
LowerCase ==
    <<"a", "b", "c", "d", "e", "f", "g", "h", "i", "j", "k", "l", "m",
      "n", "o", "p", "q", "r", "s", "t", "u", "v", "w", "x", "y", "z">>
LowerChar(c) ==
    IF \E i \in DOMAIN UpperCase : UpperCase[i] = c
    THEN LowerCase[CHOOSE i \in DOMAIN UpperCase : UpperCase[i] = c]
    ELSE c
Lower(s) == [i \in 1..Len(s) |-> LowerChar(s[i])]

\* urllib.parse.unquote: every %XX with two hex digits becomes the character
\* it encodes, in one pass; a '%' not followed by two hex digits stays.  The
\* table holds the escapes of the model's alphabet.
HexPairs ==
    (<<"4", "0">> :> "@") @@ (<<"4", "1">> :> "A") @@ (<<"6", "1">> :> "a")
    @@ (<<"6", "2">> :> "b") @@ (<<"2", "F">> :> "/") @@ (<<"2", "f">> :> "/")
    @@ (<<"2", "E">> :> ".") @@ (<<"2", "e">> :> ".") @@ (<<"2", "5">> :> "%")
RECURSIVE UnquoteFrom(_, _)
UnquoteFrom(s, i) ==
    IF i > Len(s) THEN <<>>
    ELSE IF s[i] = "%" /\ i + 2 <= Len(s) /\ <<s[i + 1], s[i + 2]>> \in DOMAIN HexPairs
         THEN <<HexPairs[<<s[i + 1], s[i + 2]>>]>> \o UnquoteFrom(s, i + 3)
         ELSE <<s[i]>> \o UnquoteFrom(s, i + 1)
unquote(s) == UnquoteFrom(s, 1)

-----------------------------------------------------------------------------
(* Users and settings *)

EmailA == <<"a", "@", "x">>
EmailB == <<"b", "@", "x">>

UserA == [is_authenticated |-> TRUE, email |-> EmailA]
UserB == [is_authenticated |-> TRUE, email |-> EmailB]
AnonymousUser == [is_authenticated |-> FALSE]
Users == {UserA, UserB}

\* A row of the User table: the fields the handlers read or write.
UserRow(id, sub, email, language, is_active) ==
    [id |-> id, sub |-> sub, email |-> email, full_name |-> "Full Name",
     short_name |-> "Short", language |-> language, timezone |-> "UTC",
     is_active |-> is_active]

\* The table of a deployment where users A and B have logged in.
RegisteredUsers ==
    ("u1" :> UserRow("u1", "sub-a", EmailA, "en-us", TRUE))
    @@ ("u2" :> UserRow("u2", "sub-b", EmailB, "en-us", TRUE))

CALDAV_URL == <<"h", "t", "t", "p", ":", "/", "/", "d", "a", "v">>

\* CALDAV_OUTBOUND_API_KEY is empty when the deployment does not configure it.
SettingsChoices ==
    [CALDAV_OUTBOUND_API_KEY : {"", "outbound-key"},
     CALDAV_CALLBACK_BASE_URL : {None, "http://backend:8000"}]

-----------------------------------------------------------------------------
(* Words the paths of the model are built from *)

Sl == <<"/">>
W_calendars == <<"c", "a", "l", "e", "n", "d", "a", "r", "s">>
W_principals == <<"p", "r", "i", "n", "c", "i", "p", "a", "l", "s">>
W_etc == <<"e", "t", "c">>
W_passwd == <<"p", "a", "s", "s", "w", "d">>
W_dotdot == <<".", ".">>
W_c1 == <<"c", "1">>
\* The null byte, one character.
NUL == "NUL"

\* "/".join(parts)
RECURSIVE JoinSlash(_)
JoinSlash(parts) ==
    IF parts = <<>> THEN <<>>
    ELSE IF Len(parts) = 1 THEN parts[1]
    ELSE parts[1] \o Sl \o JoinSlash(Tail(parts))

-----------------------------------------------------------------------------
(* CalDAVProxyView (api/viewsets_caldav.py) *)

\* The value of the `path` URL argument: absent ("") for the root routes.
ProxyPaths ==
    { <<>>,
      JoinSlash(<<W_calendars, EmailA, W_c1, <<>>>>),
      JoinSlash(<<<<>>, W_calendars, EmailA, W_c1, <<>>>>),
      JoinSlash(<<W_principals, EmailA, <<>>>>),
      JoinSlash(<<W_calendars, W_dotdot, W_dotdot, W_etc, W_passwd>>),
      JoinSlash(<<W_etc, W_passwd>>),
      JoinSlash(<<W_calendars, <<"a", NUL>>, <<>>>>) }

\* Headers a client may send; Django exposes them in request.META.
MetaKeys ==
    {"HTTP_X_FORWARDED_USER", "HTTP_X_API_KEY", "HTTP_DEPTH", "HTTP_IF_MATCH",
     "HTTP_IF_NONE_MATCH", "HTTP_PREFER"}
ClientValue ==
    ("HTTP_X_FORWARDED_USER" :> EmailB) @@ ("HTTP_X_API_KEY" :> "client-key")
    @@ ("HTTP_DEPTH" :> "1") @@ ("HTTP_IF_MATCH" :> "etag-1")
    @@ ("HTTP_IF_NONE_MATCH" :> "*") @@ ("HTTP_PREFER" :> "return=minimal")
ClientMetas == {[k \in D |-> ClientValue[k]] : D \in SUBSET MetaKeys}

ProxyMethods == {"OPTIONS", "PROPFIND", "PUT"}

ProxyRequests ==
    [method : ProxyMethods,
     user : Users \cup {AnonymousUser},
     path : ProxyPaths,
     content_type : {"", "text/calendar"},
     body : {"", "BEGIN:VCALENDAR"},
     META : ClientMetas]

\* What requests.request does: it raises a RequestException or returns the
\* CalDAV server's response.
RequestException == [raised |-> TRUE]
UpstreamResponses ==
    { [raised |-> FALSE, status_code |-> 207, content |-> "<multistatus/>",
       headers |-> ("Content-Type" :> "application/xml; charset=utf-8")],
      [raised |-> FALSE, status_code |-> 201, content |-> "",
       headers |-> ("ETag" :> "etag-2") @@ ("X-Sabre-Version" :> "4")],
      [raised |-> FALSE, status_code |-> 401, content |-> "denied",
       headers |-> ("Content-Type" :> "text/plain")] }
UpstreamOutcomes == UpstreamResponses \cup {RequestException}

\* reverse("caldav-scheduling-callback")
callback_path == "/api/v1.0/caldav-scheduling-callback/"

\* target_url: lines 57-65
base_uri_path ==
    <<"/", "a", "p", "i", "/", "v", "1", ".", "0", "/", "c", "a", "l", "d", "a", "v">>
\* A plausible slip: the base URI path is left out of the target.
ProxyTargetUrlWithoutBase(path) ==
    LET clean_path == IF path # <<>> THEN LStripSlash(path) ELSE <<>>
    IN  CALDAV_URL \o Sl \o clean_path

ProxyTargetUrl(path) ==
    LET clean_path == IF path # <<>> THEN LStripSlash(path) ELSE <<>>
    IN  IF clean_path # <<>>
        THEN CALDAV_URL \o base_uri_path \o Sl \o clean_path
        ELSE CALDAV_URL \o base_uri_path \o Sl

\* The client headers copied upstream: lines 105-113
CopiedHeaders(request) ==
    LET copy(key, name) ==
            IF key \in DOMAIN request.META THEN name :> request.META[key] ELSE <<>>
    IN  copy("HTTP_DEPTH", "Depth") @@ copy("HTTP_IF_MATCH", "If-Match")
        @@ copy("HTTP_IF_NONE_MATCH", "If-None-Match") @@ copy("HTTP_PREFER", "Prefer")

\* A plausible slip: the client's own X-Forwarded-User and X-Api-Key headers
\* are copied like Depth and Prefer, and so replace the values set before.
ProxyHeadersTrustingClient(request, outbound_api_key) ==
    (IF "HTTP_X_FORWARDED_USER" \in DOMAIN request.META
        THEN "X-Forwarded-User" :> request.META["HTTP_X_FORWARDED_USER"] ELSE <<>>)
    @@ (IF "HTTP_X_API_KEY" \in DOMAIN request.META
        THEN "X-Api-Key" :> request.META["HTTP_X_API_KEY"] ELSE <<>>)
    @@ CopiedHeaders(request)
    @@ ("Content-Type" :>
            (IF request.content_type # "" THEN request.content_type ELSE "application/xml"))
    @@ ("X-Forwarded-User" :> request.user.email)
    @@ ("X-Forwarded-For" :> "10.0.0.1")
    @@ ("X-Forwarded-Host" :> "testserver")
    @@ ("X-Forwarded-Proto" :> "http")
    @@ ("X-Api-Key" :> outbound_api_key)
    @@ ("X-CalDAV-Callback-URL" :>
            (IF settings.CALDAV_CALLBACK_BASE_URL # None
                THEN <<settings.CALDAV_CALLBACK_BASE_URL, callback_path>>
                ELSE <<"http://testserver", callback_path>>))

\* The headers sent to the CalDAV server: lines 67-113.  The callback URL is
\* the pair (base, path); the configured base has no trailing slash, so
\* rstrip('/') leaves it as it is.
ProxyHeaders(request, outbound_api_key) ==
    CopiedHeaders(request)
    @@ ("Content-Type" :>
            (IF request.content_type # "" THEN request.content_type ELSE "application/xml"))
    @@ ("X-Forwarded-User" :> request.user.email)
    @@ ("X-Forwarded-For" :> "10.0.0.1")
    @@ ("X-Forwarded-Host" :> "testserver")
    @@ ("X-Forwarded-Proto" :> "http")
    @@ ("X-Api-Key" :> outbound_api_key)
    @@ ("X-CalDAV-Callback-URL" :>
            (IF settings.CALDAV_CALLBACK_BASE_URL # None
                THEN <<settings.CALDAV_CALLBACK_BASE_URL, callback_path>>
                ELSE <<"http://testserver", callback_path>>))

\* The response headers taken from the CalDAV server's response: lines 145-155
ProxyResponseHeaders(response) ==
    LET copy(name) ==
            IF name \in DOMAIN response.headers THEN name :> response.headers[name] ELSE <<>>
    IN  ("Content-Type" :>
            (IF "Content-Type" \in DOMAIN response.headers
                THEN response.headers["Content-Type"] ELSE "application/xml"))
        @@ copy("ETag") @@ copy("DAV") @@ copy("Allow") @@ copy("Location")

\* A plausible slip: the missing key is not looked at.
KeyMissingNever(outbound_api_key) == FALSE

\* "if not outbound_api_key"
KeyMissing(outbound_api_key) == outbound_api_key = ""

\* A plausible slip: the authentication check placed before the preflight answer.
ProxyGateAuthFirst(request) ==
    IF ~request.user.is_authenticated THEN "unauthorized"
    ELSE IF request.method = "OPTIONS" THEN "preflight"
    ELSE "forward"

\* Lines 33-45: the CORS preflight answer, then the authentication check.
ProxyGate(request) ==
    IF request.method = "OPTIONS" THEN "preflight"
    ELSE IF ~request.user.is_authenticated THEN "unauthorized"
    ELSE "forward"

\* CalDAVProxyView.dispatch as a function of the request and of what the
\* upstream call does: the response, and in `calls` the requests sent to the
\* CalDAV server while handling it, each with what came back.
ProxyDispatch(request, upstream) ==
    LET gate == ProxyGate(request)
        outbound_api_key == settings.CALDAV_OUTBOUND_API_KEY
        call == [method |-> request.method,
                 url |-> ProxyTargetUrl(request.path),
                 headers |-> ProxyHeaders(request, outbound_api_key),
                 data |-> IF request.body # "" THEN request.body ELSE None]
    IN  IF gate = "preflight"
        THEN [status |-> 200, content |-> "",
              headers |->
                ("Access-Control-Allow-Methods" :>
                    "GET, OPTIONS, PROPFIND, PROPPATCH, REPORT, MKCOL, MKCALENDAR, PUT, DELETE, POST")
                @@ ("Access-Control-Allow-Headers" :>
                    "Content-Type, depth, authorization, if-match, if-none-match, prefer"),
              calls |-> <<>>]
        ELSE IF gate = "unauthorized"
        THEN [status |-> 401, content |-> "", headers |-> <<>>, calls |-> <<>>]
        ELSE IF KeyMissing(outbound_api_key)
        THEN [status |-> 500, content |-> "CalDAV authentication not configured",
              headers |-> <<>>, calls |-> <<>>]
        ELSE IF upstream.raised
        THEN [status |-> 502, content |-> "CalDAV server error",
              headers |-> ("Content-Type" :> "text/plain"),
              calls |-> <<call @@ ("response" :> upstream)>>]
        ELSE [status |-> upstream.status_code, content |-> upstream.content,
              headers |-> ProxyResponseHeaders(upstream),
              calls |-> <<call @@ ("response" :> upstream)>>]

-----------------------------------------------------------------------------
(* Workers.  A worker is idle, or holds a request it has received and not   *)
(* yet answered (phase "request", or a later phase of a handler that takes  *)
(* several steps), or has sent the response (phase "response") and has not  *)
(* yet taken the next request.                                              *)

Idle == [phase |-> "idle"]
Received(view, request) == [phase |-> "request", view |-> view, request |-> request]
Answered(view, request, response) ==
    [phase |-> "response", view |-> view, request |-> request, response |-> response]

\* The worker is ready for the next request.
Finish(w) ==
    /\ inflight[w].phase = "response"
    /\ inflight' = [inflight EXCEPT ![w] = Idle]
    /\ UNCHANGED <<settings, user_table, tokens, uuids, caldav>>

\* A request reaches the proxy.
ProxyReceive(w) ==
    /\ inflight[w] = Idle
    /\ \E request \in ProxyRequests :
        inflight' = [inflight EXCEPT ![w] = Received("caldav-proxy", request)]
    /\ UNCHANGED <<settings, user_table, tokens, uuids, caldav>>

\* CalDAVProxyView.dispatch, from start to finish.
CalDAVProxyView(w) ==
    /\ inflight[w].phase = "request"
    /\ inflight[w].view = "caldav-proxy"
    /\ \E upstream \in UpstreamOutcomes :
        inflight' = [inflight EXCEPT ![w] =
            Answered("caldav-proxy", inflight[w].request,
                     ProxyDispatch(inflight[w].request, upstream))]
    /\ UNCHANGED <<settings, user_table, tokens, uuids, caldav>>

InitProxy ==
    /\ settings \in SettingsChoices
    /\ tokens = {}
    /\ user_table = RegisteredUsers
    /\ uuids = 0
    /\ inflight = [w \in {1} |-> Idle]
    /\ caldav = <<>>

NextProxy ==
    \/ \E w \in DOMAIN inflight : ProxyReceive(w)
    \/ \E w \in DOMAIN inflight : CalDAVProxyView(w)
    \/ \E w \in DOMAIN inflight : Finish(w)

SpecProxy == InitProxy /\ [][NextProxy]_vars

-----------------------------------------------------------------------------
(* Subscription tokens: path validation (api/viewsets.py, api/serializers.py) *)

\* A plausible slip: the calendar id is matched with [^/]+ like the email.
CALDAV_PATH_PATTERN_AnyId(caldav_path) ==
    LET prefix == Sl \o W_calendars \o Sl
        i == Len(prefix) + 1
        n == RunLength(caldav_path, i, "not-slash")
        j == i + n + 1
        m == RunLength(caldav_path, j, "not-slash")
        k == j + m + 1
    IN  /\ StartsWith(caldav_path, prefix)
        /\ n >= 1
        /\ i + n <= Len(caldav_path) /\ caldav_path[i + n] = "/"
        /\ m >= 1
        /\ j + m <= Len(caldav_path) /\ caldav_path[j + m] = "/"
        /\ k = Len(caldav_path) + 1

\* CALDAV_PATH_PATTERN.match: ^/calendars/[^/]+/[a-zA-Z0-9-]+/$ .  Both runs
\* are greedy and end at the first character outside their class, which
\* must be the '/'; '$' matches at the end and before a final line feed.
CALDAV_PATH_PATTERN(caldav_path) ==
    LET prefix == Sl \o W_calendars \o Sl
        i == Len(prefix) + 1
        n == RunLength(caldav_path, i, "not-slash")
        j == i + n + 1
        m == RunLength(caldav_path, j, "id")
        k == j + m + 1
    IN  /\ StartsWith(caldav_path, prefix)
        /\ n >= 1
        /\ i + n <= Len(caldav_path) /\ caldav_path[i + n] = "/"
        /\ m >= 1
        /\ j + m <= Len(caldav_path) /\ caldav_path[j + m] = "/"
        /\ \/ k = Len(caldav_path) + 1
           \/ k = Len(caldav_path) /\ caldav_path[k] = LF

\* A plausible slip: the email of the path is not compared with the user's.
VerifyCaldavAccessFormatOnly(user, caldav_path) ==
    CALDAV_PATH_PATTERN(caldav_path)

\* SubscriptionTokenViewSet._verify_caldav_access
VerifyCaldavAccess(user, caldav_path) ==
    IF ~CALDAV_PATH_PATTERN(caldav_path) THEN FALSE
    ELSE LET parts == SplitSlash(StripSlash(caldav_path))
         IN  IF Len(parts) >= 2 /\ parts[1] = W_calendars
             THEN Lower(unquote(parts[2])) = Lower(user.email)
             ELSE FALSE

\* SubscriptionTokenViewSet._normalize_caldav_path
NormalizeCaldavPath(caldav_path) ==
    LET a == IF ~StartsWith(caldav_path, Sl) THEN Sl \o caldav_path ELSE caldav_path
    IN  IF ~EndsWith(a, Sl) THEN a \o Sl ELSE a

\* CalendarSubscriptionTokenCreateSerializer.validate_caldav_path
validate_caldav_path(value) ==
    LET a == IF ~EndsWith(value, Sl) THEN value \o Sl ELSE value
    IN  IF ~StartsWith(a, Sl) THEN Sl \o a ELSE a

\* max_length of the serializer's caldav_path field
caldav_path_max_length == 512

\* CalendarSubscriptionTokenCreateSerializer.is_valid on the request data:
\* caldav_path is required, stripped, refused when blank or longer than
\* max_length, then normalized; calendar_name is optional with default "",
\* and refused when given blank (the names of the model are all shorter
\* than its max_length).  The result is the validated data, or invalid.
CreateSerializer(data) ==
    LET path == Strip(data["caldav_path"])
        name_given == "calendar_name" \in DOMAIN data
    IN  IF "caldav_path" \notin DOMAIN data THEN [valid |-> FALSE]
        ELSE IF path = <<>> \/ Len(path) > caldav_path_max_length THEN [valid |-> FALSE]
        ELSE IF name_given /\ data["calendar_name"] = "" THEN [valid |-> FALSE]
        ELSE [valid |-> TRUE,
              caldav_path |-> validate_caldav_path(path),
              calendar_name |-> IF name_given THEN data["calendar_name"] ELSE ""]

-----------------------------------------------------------------------------
(* Subscription tokens: the table and the handlers *)

\* How many rows are ever inserted in one behaviour.
MaxUuids == 3

\* timezone.now()
Now == "now"

\* The n-th row inserted: uuid4 gives it a primary key and a token value that
\* no earlier row was given.
NewToken(n, owner, caldav_path, calendar_name) ==
    [id |-> n, owner |-> owner, caldav_path |-> caldav_path,
     calendar_name |-> calendar_name, token |-> n, is_active |-> TRUE,
     last_accessed_at |-> None]

\* CalendarSubscriptionTokenSerializer: what a response shows of a row.
TokenData(row) ==
    [token |-> row.token, caldav_path |-> row.caldav_path,
     calendar_name |-> row.calendar_name, is_active |-> row.is_active,
     last_accessed_at |-> row.last_accessed_at]

\* objects.filter(owner=..., caldav_path=...)
RowsOf(owner, caldav_path) ==
    {t \in tokens : t.owner = owner /\ t.caldav_path = caldav_path}

Response(status, data) == [status |-> status, data |-> data, calls |-> <<>>]

\* A worker moves to a later phase of its handler, keeping the request.
Proceed(w, phase, locals) ==
    inflight' = [inflight EXCEPT ![w] =
        [phase |-> phase, view |-> inflight[w].view,
         request |-> inflight[w].request, locals |-> locals]]

\* A worker sends its response.
Answer(w, response) ==
    inflight' = [inflight EXCEPT ![w] =
        Answered(inflight[w].view, inflight[w].request, response)]

At(w, view, phase) == inflight[w].phase = phase /\ inflight[w].view = view

\* A request reaches a view.
Receive(w, view, requests) ==
    /\ inflight[w] = Idle
    /\ \E request \in requests :
        inflight' = [inflight EXCEPT ![w] = Received(view, request)]
    /\ UNCHANGED <<settings, user_table, tokens, uuids, caldav>>

\* SubscriptionTokenViewSet.create up to the lookup of get_or_create:
\* permission, serializer, access check, then the SELECT.
CreateStart(w) ==
    /\ At(w, "subscription-tokens-create", "request")
    /\ LET request == inflight[w].request
           validated == CreateSerializer(request.data)
       IN  IF ~request.user.is_authenticated
           THEN Answer(w, Response(401, "not authenticated"))
           ELSE IF ~validated.valid
           THEN Answer(w, Response(400, "invalid"))
           ELSE IF ~VerifyCaldavAccess(request.user, validated.caldav_path)
           THEN Answer(w, Response(403, "You don't have access to this calendar"))
           ELSE LET found == RowsOf(request.user.email, validated.caldav_path)
                IN  IF found # {}
                    THEN Proceed(w, "found",
                            [token |-> CHOOSE t \in found : TRUE,
                             calendar_name |-> validated.calendar_name])
                    ELSE Proceed(w, "insert",
                            [caldav_path |-> validated.caldav_path,
                             calendar_name |-> validated.calendar_name])
    /\ UNCHANGED <<settings, user_table, tokens, uuids, caldav>>

\* A plausible slip: the table has no UniqueConstraint on (owner, caldav_path).
UniqueTokenPerOwnerCalendarMissing(owner, caldav_path) == TRUE

\* Meta.constraints: unique_token_per_owner_calendar lets the row in.
UniqueTokenPerOwnerCalendar(owner, caldav_path) == RowsOf(owner, caldav_path) = {}

\* get_or_create's INSERT: the row is stored and the answer is 201, or the
\* unique constraint refuses it and get_or_create looks the row up again.
CreateInsert(w) ==
    /\ At(w, "subscription-tokens-create", "insert")
    /\ LET owner == inflight[w].request.user.email
           locals == inflight[w].locals
           row == NewToken(uuids + 1, owner, locals.caldav_path, locals.calendar_name)
       IN  IF UniqueTokenPerOwnerCalendar(owner, locals.caldav_path)
           THEN /\ uuids < MaxUuids
                /\ tokens' = tokens \cup {row}
                /\ uuids' = uuids + 1
                /\ Answer(w, Response(201, TokenData(row)))
           ELSE /\ Proceed(w, "reget", locals)
                /\ UNCHANGED <<tokens, uuids>>
    /\ UNCHANGED <<settings, user_table, caldav>>

\* get_or_create's second SELECT, after the refused INSERT: the row found is
\* returned as not created; when it is gone again the IntegrityError is
\* raised and the answer is 500.
CreateReget(w) ==
    /\ At(w, "subscription-tokens-create", "reget")
    /\ LET owner == inflight[w].request.user.email
           locals == inflight[w].locals
           found == RowsOf(owner, locals.caldav_path)
       IN  IF found # {}
           THEN Proceed(w, "found",
                    [token |-> CHOOSE t \in found : TRUE,
                     calendar_name |-> locals.calendar_name])
           ELSE Answer(w, Response(500, "IntegrityError"))
    /\ UNCHANGED <<settings, user_table, tokens, uuids, caldav>>

\* A plausible slip: the name of the request always replaces the stored one.
NameToSaveAlways(token, calendar_name) == calendar_name # token.calendar_name

\* "if not created and calendar_name and token.calendar_name != calendar_name"
NameToSave(token, calendar_name) ==
    calendar_name # "" /\ token.calendar_name # calendar_name

\* SubscriptionTokenViewSet.create after get_or_create returned an existing
\* row: the name is saved when it is to be (an UPDATE of that one column by
\* primary key, a DatabaseError when the row is gone), and the answer is 200
\* with the row as this worker holds it.
CreateFound(w) ==
    /\ At(w, "subscription-tokens-create", "found")
    /\ LET token == inflight[w].locals.token
           calendar_name == inflight[w].locals.calendar_name
       IN  IF NameToSave(token, calendar_name)
           THEN IF \E t \in tokens : t.id = token.id
                THEN /\ tokens' = {IF t.id = token.id
                                    THEN [t EXCEPT !.calendar_name = calendar_name]
                                    ELSE t : t \in tokens}
                     /\ Answer(w, Response(200,
                            TokenData([token EXCEPT !.calendar_name = calendar_name])))
                ELSE /\ Answer(w, Response(500, "DatabaseError"))
                     /\ UNCHANGED tokens
           ELSE /\ Answer(w, Response(200, TokenData(token)))
                /\ UNCHANGED tokens
    /\ UNCHANGED <<settings, user_table, uuids, caldav>>

\* SubscriptionTokenViewSet.by_path up to its SELECT; a GET is answered here.
ByPathStart(w) ==
    /\ At(w, "subscription-tokens-by-path", "request")
    /\ LET request == inflight[w].request
           given == "caldav_path" \in DOMAIN request.query_params
           caldav_path == NormalizeCaldavPath(request.query_params["caldav_path"])
           found == RowsOf(request.user.email, caldav_path)
       IN  IF ~request.user.is_authenticated
           THEN Answer(w, Response(401, "not authenticated"))
           ELSE IF ~given \/ request.query_params["caldav_path"] = <<>>
           THEN Answer(w, Response(400, "caldav_path query parameter is required"))
           ELSE IF ~VerifyCaldavAccess(request.user, caldav_path)
           THEN Answer(w, Response(403, "You don't have access to this calendar"))
           ELSE IF found = {}
           THEN Answer(w, Response(404, "No subscription token exists for this calendar"))
           ELSE IF request.method = "GET"
           THEN Answer(w, Response(200, TokenData(CHOOSE t \in found : TRUE)))
           ELSE Proceed(w, "delete", [token |-> CHOOSE t \in found : TRUE])
    /\ UNCHANGED <<settings, user_table, tokens, uuids, caldav>>

\* A plausible slip: revoking only clears is_active and keeps the row.
RowsAfterDeleteDeactivating(token) ==
    {IF t.id = token.id THEN [t EXCEPT !.is_active = FALSE] ELSE t : t \in tokens}

\* token.delete(): DELETE by primary key.
RowsAfterDelete(token) == {t \in tokens : t.id # token.id}

\* SubscriptionTokenViewSet.by_path, DELETE: the row is deleted, answer 204.
ByPathDelete(w) ==
    /\ At(w, "subscription-tokens-by-path", "delete")
    /\ tokens' = RowsAfterDelete(inflight[w].locals.token)
    /\ Answer(w, Response(204, None))
    /\ UNCHANGED <<settings, user_table, uuids, caldav>>

\* A plausible slip: the lookup forgets is_active=True.
ExportLookupIgnoringActive(token) == {t \in tokens : t.token = token}

\* objects.filter(token=token, is_active=True)
ExportLookup(token) == {t \in tokens : t.token = token /\ t.is_active}

\* ICalExportView.get up to its lookup: 404 when no active row has the token.
ExportStart(w) ==
    /\ At(w, "ical-export", "request")
    /\ LET found == ExportLookup(inflight[w].request.token)
       IN  IF found = {}
           THEN Answer(w, Response(404, "Calendar not found"))
           ELSE Proceed(w, "touch", [subscription |-> CHOOSE t \in found : TRUE])
    /\ UNCHANGED <<settings, user_table, tokens, uuids, caldav>>

\* What requests.get does for the export.
ExportUpstreamOutcomes ==
    { [raised |-> TRUE],
      [raised |-> FALSE, status_code |-> 200, content |-> "BEGIN:VCALENDAR"],
      [raised |-> FALSE, status_code |-> 404, content |-> "not found"] }

\* A plausible slip: the stored path is appended with its leading slash.
ExportCallKeepingSlash(subscription, outbound_api_key) ==
    [method |-> "GET",
     url |-> CALDAV_URL \o base_uri_path \o Sl \o subscription.caldav_path
                \o <<"?", "e", "x", "p", "o", "r", "t">>,
     headers |-> ("X-Forwarded-User" :> subscription.owner)
                 @@ ("X-Api-Key" :> outbound_api_key)]

\* The upstream GET of the export: lines 60-71
ExportCall(subscription, outbound_api_key) ==
    [method |-> "GET",
     url |-> CALDAV_URL \o base_uri_path \o Sl \o LStripSlash(subscription.caldav_path)
                \o <<"?", "e", "x", "p", "o", "r", "t">>,
     headers |-> ("X-Forwarded-User" :> subscription.owner)
                 @@ ("X-Api-Key" :> outbound_api_key)]

\* A plausible slip: the UPDATE is filtered on the token alone.
TouchedRowsIgnoringActive(token) ==
    {IF t.token = token THEN [t EXCEPT !.last_accessed_at = Now] ELSE t : t \in tokens}

\* objects.filter(token=token, is_active=True).update(last_accessed_at=now)
TouchedRows(token) ==
    {IF t.token = token /\ t.is_active
     THEN [t EXCEPT !.last_accessed_at = Now] ELSE t : t \in tokens}

\* ICalExportView.get from the UPDATE of last_accessed_at to the response.
ExportTouch(w) ==
    /\ At(w, "ical-export", "touch")
    /\ LET token == inflight[w].request.token
           subscription == inflight[w].locals.subscription
           outbound_api_key == settings.CALDAV_OUTBOUND_API_KEY
           call == ExportCall(subscription, outbound_api_key)
       IN  /\ tokens' = TouchedRows(token)
           /\ IF outbound_api_key = ""
              THEN Answer(w, Response(500, "iCal export not configured"))
              ELSE \E upstream \in ExportUpstreamOutcomes :
                    IF upstream.raised
                    THEN Answer(w, [status |-> 502, data |-> "Calendar server unavailable",
                                    calls |-> <<call>>])
                    ELSE IF upstream.status_code # 200
                    THEN Answer(w, [status |-> 502, data |-> "Error generating calendar data",
                                    calls |-> <<call>>])
                    ELSE Answer(w, [status |-> 200, data |-> upstream.content,
                                    calls |-> <<call>>])
    /\ UNCHANGED <<settings, user_table, uuids, caldav>>

\* is_active is cleared on a row (the field is editable outside the API).
Deactivate ==
    /\ \E row \in tokens :
        /\ row.is_active
        /\ tokens' = (tokens \ {row}) \cup {[row EXCEPT !.is_active = FALSE]}
    /\ UNCHANGED <<settings, user_table, uuids, inflight, caldav>>

-----------------------------------------------------------------------------
(* Subscription tokens: the requests of the model and the specifications *)

W_c2 == <<"c", "-", "2">>
EmailA_upper == <<"A", "@", "x">>
EmailA_quoted == <<"a", "%", "4", "0", "x">>
EmailB_quoted == <<"b", "%", "4", "0", "x">>

\* /calendars/<email>/<id>/
CalendarPath(email, id) == JoinSlash(<<<<>>, W_calendars, email, id, <<>>>>)

PathA1 == CalendarPath(EmailA, W_c1)
PathA2 == CalendarPath(EmailA, W_c2)
PathB1 == CalendarPath(EmailB, W_c1)

\* A path of user B's longer than the serializer allows.
LongIdLength == 500
PathB_long == CalendarPath(EmailB, [i \in 1..LongIdLength |-> "c"])

\* Paths the views accept for some user, in the spellings a client may use.
WellFormedPaths ==
    { PathA1, PathB1,
      JoinSlash(<<W_calendars, EmailA, W_c1>>),
      CalendarPath(EmailA_upper, W_c1),
      CalendarPath(EmailA_quoted, W_c1),
      CalendarPath(EmailB_quoted, W_c1) }

\* Paths of the shapes the tests of TestPathInjectionProtection send.
MalformedPaths ==
    { JoinSlash(<<<<>>, W_calendars, EmailA, W_dotdot, EmailB, W_c1, <<>>>>),
      JoinSlash(<<<<>>, W_calendars, EmailA, W_dotdot, <<>>>>),
      CalendarPath(EmailA, <<".", ".", "%", "2", "F", "c", "1">>),
      CalendarPath(EmailA, <<"c", "1", "?", "x">>),
      CalendarPath(EmailA, <<"c", "1", "#", "x">>),
      CalendarPath(EmailA, <<"c", " ", "1">>),
      CalendarPath(EmailA, <<"c", TAB, "1">>),
      CalendarPath(EmailA, <<>>),
      JoinSlash(<<<<>>, W_calendars, EmailA, <<>>, W_c1, <<>>>>),
      JoinSlash(<<<<>>, W_calendars, EmailA, W_c1, W_c1, <<>>>>),
      JoinSlash(<<<<>>, W_calendars, EmailA, <<>>>>),
      JoinSlash(<<<<>>, W_calendars, <<>>>>),
      JoinSlash(<<<<>>, W_etc, W_passwd, <<>>>>),
      JoinSlash(<<<<>>, W_etc, W_calendars, EmailA, W_c1, <<>>>>),
      JoinSlash(<<<<>>, W_dotdot, W_calendars, EmailA, W_c1, <<>>>>),
      JoinSlash(<<<<>>, <<"C", "a", "l", "e", "n", "d", "a", "r", "s">>, EmailA, W_c1, <<>>>>),
      <<" ">> \o PathA1,
      PathA1 \o <<LF>>,
      PathB1 \o <<" ">>,
      <<>>,
      <<" ">>,
      PathB_long }

\* The POST bodies: caldav_path and calendar_name each given or not.
CreateData(paths, names) ==
    {path @@ name :
        path \in {<<>>} \cup {"caldav_path" :> p : p \in paths},
        name \in {<<>>} \cup {"calendar_name" :> n : n \in names}}
CreateRequests(users, paths, names) ==
    [user : users, data : CreateData(paths, names)]

\* The by-path requests: the caldav_path query parameter given or not.
ByPathRequests(users, paths) ==
    [user : users, method : {"GET", "DELETE"},
     query_params : {<<>>} \cup {"caldav_path" :> p : p \in paths}]

\* The export requests: any token value ever issued, and one never issued.
ExportRequests == [token : 1..(MaxUuids + 1)]

InitTokens(workers, choices) ==
    /\ settings \in choices
    /\ tokens = {}
    /\ user_table = RegisteredUsers
    /\ uuids = 0
    /\ inflight = [w \in workers |-> Idle]
    /\ caldav = <<>>

\* The settings of a deployment whose outbound API key is configured.
Configured == {c \in SettingsChoices :
                c.CALDAV_OUTBOUND_API_KEY # "" /\ c.CALDAV_CALLBACK_BASE_URL = None}

\* One worker, two users and an anonymous client, every path of the model.
AccessPaths == WellFormedPaths \cup MalformedPaths
InitAccess == InitTokens({1}, Configured)
NextAccess ==
    \/ \E w \in DOMAIN inflight :
        Receive(w, "subscription-tokens-create",
                CreateRequests(Users \cup {AnonymousUser}, AccessPaths, {}))
    \/ \E w \in DOMAIN inflight :
        Receive(w, "subscription-tokens-by-path",
                ByPathRequests(Users \cup {AnonymousUser}, AccessPaths))
    \/ \E w \in DOMAIN inflight : CreateStart(w)
    \/ \E w \in DOMAIN inflight : CreateInsert(w)
    \/ \E w \in DOMAIN inflight : CreateFound(w)
    \/ \E w \in DOMAIN inflight : ByPathStart(w)
    \/ \E w \in DOMAIN inflight : ByPathDelete(w)
    \/ \E w \in DOMAIN inflight : Finish(w)
SpecAccess == InitAccess /\ [][NextAccess]_vars

\* One worker and user A with two calendars: tokens are created, renamed,
\* read, revoked, deactivated and used for the export.
InitLifecycle ==
    InitTokens({1}, {c \in SettingsChoices : c.CALDAV_CALLBACK_BASE_URL = None})
NextLifecycle ==
    \/ \E w \in DOMAIN inflight :
        Receive(w, "subscription-tokens-create",
                CreateRequests({UserA}, {PathA1, PathA2}, {"", "Work", "Home"}))
    \/ \E w \in DOMAIN inflight :
        Receive(w, "subscription-tokens-by-path",
                ByPathRequests({UserA}, {PathA1, PathA2}))
    \/ \E w \in DOMAIN inflight : Receive(w, "ical-export", ExportRequests)
    \/ \E w \in DOMAIN inflight : ExportStart(w)
    \/ \E w \in DOMAIN inflight : ExportTouch(w)
    \/ Deactivate
    \/ \E w \in DOMAIN inflight : CreateStart(w)
    \/ \E w \in DOMAIN inflight : CreateInsert(w)
    \/ \E w \in DOMAIN inflight : CreateFound(w)
    \/ \E w \in DOMAIN inflight : ByPathStart(w)
    \/ \E w \in DOMAIN inflight : ByPathDelete(w)
    \/ \E w \in DOMAIN inflight : Finish(w)
SpecLifecycle == InitLifecycle /\ [][NextLifecycle]_vars

\* Two workers whose steps interleave: users A and B create and revoke tokens
\* for the same calendars at the same time.
InitRace == InitTokens({1, 2}, Configured)
NextRace ==
    \/ \E w \in DOMAIN inflight :
        Receive(w, "subscription-tokens-create",
                CreateRequests(Users, {PathA1, PathB1}, {}))
    \/ \E w \in DOMAIN inflight :
        Receive(w, "subscription-tokens-by-path",
                ByPathRequests(Users, {PathA1, PathB1}))
    \/ \E w \in DOMAIN inflight : CreateStart(w)
    \/ \E w \in DOMAIN inflight : CreateInsert(w)
    \/ \E w \in DOMAIN inflight : CreateReget(w)
    \/ \E w \in DOMAIN inflight : CreateFound(w)
    \/ \E w \in DOMAIN inflight : ByPathStart(w)
    \/ \E w \in DOMAIN inflight : ByPathDelete(w)
    \/ \E w \in DOMAIN inflight : Finish(w)
SpecRace == InitRace /\ [][NextRace]_vars

\* Two workers and one calendar of user A: its token is created, revoked and
\* created again while export requests carry the token values.
InitRegenerate == InitTokens({1, 2}, Configured)
NextRegenerate ==
    \/ \E w \in DOMAIN inflight :
        Receive(w, "subscription-tokens-create", CreateRequests({UserA}, {PathA1}, {}))
    \/ \E w \in DOMAIN inflight :
        Receive(w, "subscription-tokens-by-path", ByPathRequests({UserA}, {PathA1}))
    \/ \E w \in DOMAIN inflight : Receive(w, "ical-export", ExportRequests)
    \/ \E w \in DOMAIN inflight : ExportStart(w)
    \/ \E w \in DOMAIN inflight : ExportTouch(w)
    \/ \E w \in DOMAIN inflight : CreateStart(w)
    \/ \E w \in DOMAIN inflight : CreateInsert(w)
    \/ \E w \in DOMAIN inflight : CreateReget(w)
    \/ \E w \in DOMAIN inflight : CreateFound(w)
    \/ \E w \in DOMAIN inflight : ByPathStart(w)
    \/ \E w \in DOMAIN inflight : ByPathDelete(w)
    \/ \E w \in DOMAIN inflight : Finish(w)
SpecRegenerate == InitRegenerate /\ [][NextRegenerate]_vars

-----------------------------------------------------------------------------
(* Claims about CalDAVProxyView, checked under SpecProxy *)

\* The workers that have answered a request of the given view.
AnsweredBy(view) ==
    {w \in DOMAIN inflight : inflight[w].phase = "response" /\ inflight[w].view = view}

\* The requests that differ from `request` at most in the X-Forwarded-User
\* and X-Api-Key headers the client sent.
SpoofKeys == {"HTTP_X_FORWARDED_USER", "HTTP_X_API_KEY"}
SpoofVariants(request) ==
    {[request EXCEPT !.META = m] : m \in
        {m \in ClientMetas :
            \A k \in MetaKeys \ SpoofKeys :
                /\ k \in DOMAIN m <=> k \in DOMAIN request.META
                /\ k \in DOMAIN m => m[k] = request.META[k]}}

\* C1: every forwarded request carries the authenticated user's email as
\* X-Forwarded-User, and the same request with other client-sent
\* X-Forwarded-User and X-Api-Key headers is forwarded with the same
\* X-Forwarded-User and X-Api-Key values.
C1_ForwardedUserIsAuthenticatedUser ==
    \A w \in AnsweredBy("caldav-proxy") :
        LET request == inflight[w].request
            calls == inflight[w].response.calls
        IN  calls # <<>> =>
                /\ Len(calls) = 1
                /\ calls[1].headers["X-Forwarded-User"] = request.user.email
                /\ \A other \in SpoofVariants(request), upstream \in UpstreamOutcomes :
                    LET otherCalls == ProxyDispatch(other, upstream).calls
                    IN  /\ Len(otherCalls) = 1
                        /\ otherCalls[1].headers["X-Forwarded-User"]
                                = calls[1].headers["X-Forwarded-User"]
                        /\ otherCalls[1].headers["X-Api-Key"]
                                = calls[1].headers["X-Api-Key"]

\* C1's case: a forwarded request whose client sent both headers itself.
C1_Witness ==
    \E w \in AnsweredBy("caldav-proxy") :
        /\ inflight[w].response.calls # <<>>
        /\ SpoofKeys \subseteq DOMAIN inflight[w].request.META
        /\ inflight[w].request.META["HTTP_X_FORWARDED_USER"]
                # inflight[w].request.user.email

\* C2: an unauthenticated request other than OPTIONS is answered 401 and an
\* OPTIONS request 200 with the CORS headers, both with nothing sent upstream.
C2_UnauthenticatedOrPreflightNotForwarded ==
    \A w \in AnsweredBy("caldav-proxy") :
        LET request == inflight[w].request
            response == inflight[w].response
        IN  /\ (request.method # "OPTIONS" /\ ~request.user.is_authenticated) =>
                (response.status = 401 /\ response.calls = <<>>)
            /\ request.method = "OPTIONS" =>
                /\ response.status = 200
                /\ {"Access-Control-Allow-Methods", "Access-Control-Allow-Headers"}
                        \subseteq DOMAIN response.headers
                /\ response.calls = <<>>

\* C2's cases: an anonymous PROPFIND and an anonymous OPTIONS, both answered.
C2_Witness ==
    \E w \in AnsweredBy("caldav-proxy") :
        /\ ~inflight[w].request.user.is_authenticated
        /\ inflight[w].request.method = "PROPFIND"
        /\ inflight[w].request.path # <<>>
        /\ inflight[w].response.status = 401

\* The paths C8 wants refused: a '..' segment, a null byte, or a non-empty
\* path outside calendars/ and principals/ (a leading slash allowed).
C8_PathToReject(path) ==
    \/ \E i \in 1..Len(SplitSlash(path)) : SplitSlash(path)[i] = W_dotdot
    \/ \E i \in 1..Len(path) : path[i] = NUL
    \/ /\ path # <<>>
       /\ ~StartsWith(LStripSlash(path), W_calendars \o Sl)
       /\ ~StartsWith(LStripSlash(path), W_principals \o Sl)

\* C8: an authenticated request with such a path is answered 400 and nothing
\* is forwarded; the other paths are not answered 400.
C8_BadPathsAnswered400 ==
    \A w \in AnsweredBy("caldav-proxy") :
        LET request == inflight[w].request
            response == inflight[w].response
        IN  (request.user.is_authenticated /\ request.method # "OPTIONS") =>
                IF C8_PathToReject(request.path)
                THEN response.status = 400 /\ response.calls = <<>>
                ELSE response.status # 400

\* ---------------------------------------------------------------------------
\* Subscription tokens: access
\* ---------------------------------------------------------------------------

\* The caldav_path a create or by-path request carries, as the client sent it.
HasPath(slot) ==
    IF slot.view = "subscription-tokens-create"
    THEN "caldav_path" \in DOMAIN slot.request.data
    ELSE "caldav_path" \in DOMAIN slot.request.query_params
PathOf(slot) ==
    IF slot.view = "subscription-tokens-create"
    THEN slot.request.data["caldav_path"]
    ELSE slot.request.query_params["caldav_path"]

TokenViews == {"subscription-tokens-create", "subscription-tokens-by-path"}

\* Worker w takes the first step of a create or by-path request of an
\* authenticated user that carries a caldav_path.
FirstStep(w) ==
    /\ inflight[w].phase = "request"
    /\ inflight'[w] # inflight[w]
    /\ inflight[w].view \in TokenViews
    /\ inflight[w].request.user.is_authenticated
    /\ HasPath(inflight[w])

\* The components of a path between its outer slashes.
Components(path) == SplitSlash(StripSlash(path))

\* The path names the calendars of somebody else: its email segment, URL
\* decoded, is not the user's email, letter case aside.
NotOwner(user, path) ==
    /\ Len(Components(path)) >= 2
    /\ Components(path)[1] = W_calendars
    /\ Lower(unquote(Components(path)[2])) # Lower(user.email)

\* The path is too long for the create serializer.
TooLong(slot) ==
    /\ slot.view = "subscription-tokens-create"
    /\ Len(Strip(PathOf(slot))) > caldav_path_max_length

RefusedWith(w, status) ==
    /\ inflight'[w].phase = "response"
    /\ inflight'[w].response.status = status
    /\ tokens' = tokens

Normalized(path) ==
    LET led == IF path # <<>> /\ Head(path) = "/" THEN path ELSE Sl \o path
    IN  IF led[Len(led)] = "/" THEN led ELSE led \o Sl

\* The path is /calendars/<one segment>/<letters, digits, hyphens>/ and the
\* segment, URL decoded, is the user's email, letter case aside.
OwnCalendarPath(user, path) ==
    LET parts == SplitSlash(path)
    IN  /\ Len(parts) = 5
        /\ parts[1] = <<>> /\ parts[5] = <<>>
        /\ parts[2] = W_calendars
        /\ parts[3] # <<>>
        /\ parts[4] # <<>>
        /\ \A i \in DOMAIN parts[4] : parts[4][i] \in IdChars
        /\ Lower(unquote(parts[3])) = Lower(user.email)

\* The request passed the access check: it went on to the table.
Accepted(w) ==
    \/ inflight'[w].phase \in {"insert", "found", "delete"}
    \/ /\ inflight'[w].phase = "response"
       /\ inflight'[w].response.status \in {200, 404}

Submitted(slot) ==
    IF slot.view = "subscription-tokens-create" THEN Strip(PathOf(slot)) ELSE PathOf(slot)

Responds(w, view) ==
    /\ inflight[w].phase \notin {"idle", "response"}
    /\ inflight[w].view = view
    /\ inflight'[w].phase = "response"

\* C4: an export request whose token matches no row, or only a row with
\* is_active False, is answered 404, sends nothing to the CalDAV server and
\* changes no row (no last_accessed_at in particular).
C4_UnknownOrInactiveTokenIs404 ==
    [][\A w \in DOMAIN inflight :
        /\ inflight[w].phase = "request"
        /\ inflight[w].view = "ical-export"
        /\ inflight'[w] # inflight[w]
        /\ \A t \in tokens : t.token = inflight[w].request.token => ~t.is_active
        => /\ inflight'[w].phase = "response"
           /\ inflight'[w].response.status = 404
           /\ inflight'[w].response.calls = <<>>
           /\ tokens' = tokens]_vars

\* An export was answered 404 for the token of a row that is stored, is not
\* active and was never accessed.
C4_Witness ==
    \E w \in AnsweredBy("ical-export") :
        /\ inflight[w].response.status = 404
        /\ \E t \in tokens :
            /\ t.token = inflight[w].request.token
            /\ ~t.is_active
            /\ t.last_accessed_at = None

\* The token values of the stored rows.
Stored == {t.token : t \in tokens}

\* C5: a DELETE by-path answers 204 and removes the row; the create that
\* follows for the same path answers 201 with a token value never given out
\* before; a token value whose row was deleted is never stored again, and an
\* export request looked up while its token value has no row is answered 404
\* with nothing sent to the CalDAV server, also once the new token exists.
C5_RegenerateRevokesOldToken ==
    [][/\ \A v \in 1..uuids : v \notin Stored => v \notin Stored'
       /\ \A w \in DOMAIN inflight :
            /\ Responds(w, "subscription-tokens-by-path")
                 /\ inflight[w].request.method = "DELETE"
                 /\ inflight[w].phase = "delete"
               => /\ inflight'[w].response.status = 204
                  /\ inflight[w].locals.token.token \notin Stored'
            /\ Responds(w, "subscription-tokens-create")
                 /\ inflight'[w].response.status = 201
               => /\ inflight'[w].response.data.token \notin 1..uuids
                  /\ inflight'[w].response.data.token \in Stored'
            /\ inflight[w].phase = "request"
                 /\ inflight[w].view = "ical-export"
                 /\ inflight'[w] # inflight[w]
                 /\ inflight[w].request.token \notin Stored
               => /\ inflight'[w].phase = "response"
                  /\ inflight'[w].response.status = 404
                  /\ inflight'[w].response.calls = <<>>]_vars

\* The calendar's first token was deleted and a second one created: the
\* create was answered 201 with the second value, and an export carrying the
\* first value was answered 404 while the second is stored.
C5_Witness ==
    /\ uuids = 2
    /\ Stored = {2}
    /\ \E w \in AnsweredBy("subscription-tokens-create") :
        /\ inflight[w].response.status = 201
        /\ inflight[w].response.data.token = 2
    /\ \E w \in AnsweredBy("ical-export") :
        /\ inflight[w].request.token = 1
        /\ inflight[w].response.status = 404

\* C6: at most one row per (owner, caldav_path), and no two rows with the
\* same token value, whatever the interleaving of concurrent requests.
C6_OneRowPerOwnerAndPath ==
    \A t1, t2 \in tokens :
        \/ t1 = t2
        \/ /\ ~(t1.owner = t2.owner /\ t1.caldav_path = t2.caldav_path)
           /\ t1.token # t2.token
           /\ t1.id # t2.id

\* Two creates for the same calendar ran concurrently: both found no row,
\* one stored its row and was answered 201, the other's INSERT was refused.
C6_Witness ==
    \E w1, w2 \in DOMAIN inflight :
        /\ inflight[w1].phase = "response"
        /\ inflight[w1].view = "subscription-tokens-create"
        /\ inflight[w1].response.status = 201
        /\ inflight[w2].phase \in {"reget", "found"}
        /\ inflight[w2].view = "subscription-tokens-create"
        /\ inflight[w2].request = inflight[w1].request
        /\ Cardinality(tokens) = 1

\* The calendar_name a create request supplies, "" when it supplies none.
NameOf(slot) ==
    IF "calendar_name" \in DOMAIN slot.request.data
    THEN slot.request.data["calendar_name"]
    ELSE ""

\* The rows stored for the user and the path of a create request.
RowsFor(slot) ==
    {t \in tokens : /\ t.owner = slot.request.user.email
                    /\ t.caldav_path = Normalized(Strip(PathOf(slot)))}

\* A create request of a user for a calendar path of their own.
CreateForOwnPath(w) ==
    /\ FirstStep(w)
    /\ inflight[w].view = "subscription-tokens-create"
    /\ ~TooLong(inflight[w])
    /\ OwnCalendarPath(inflight[w].request.user, Normalized(Strip(PathOf(inflight[w]))))

\* The name is given and blank.
BlankName(slot) ==
    "calendar_name" \in DOMAIN slot.request.data /\ slot.request.data["calendar_name"] = ""

\* The create goes on to store a first row, or to return the row there is.
GoesOn(w) ==
    /\ inflight'[w].phase = IF RowsFor(inflight[w]) = {} THEN "insert" ELSE "found"
    /\ tokens' = tokens

\* The end of a create: 201 and one new row when there was none; else 200
\* with the token value of the row there is, no row added, and the stored
\* name replaced exactly when the request's name is non-empty and different.
CreateEnds(w) ==
    LET slot == inflight[w]
        response == inflight'[w].response
        name == NameOf(slot)
    IN  IF slot.phase = "insert"
        THEN /\ RowsFor(slot) = {}
             /\ response.status = 201
             /\ \E t \in tokens' \ tokens :
                    /\ tokens' = tokens \cup {t}
                    /\ t.owner = slot.request.user.email
                    /\ t.caldav_path = Normalized(Strip(PathOf(slot)))
                    /\ t.calendar_name = name
                    /\ t.token = response.data.token
        ELSE \E row \in RowsFor(slot) :
                /\ response.status = 200
                /\ response.data.token = row.token
                /\ tokens' = (tokens \ {row}) \cup
                    {[row EXCEPT !.calendar_name =
                        IF name # "" /\ name # row.calendar_name THEN name ELSE @]}

EmailBB == <<"b", "b", "@", "x">>
EmailC == <<"c", "@", "x">>
W_mailto == <<"m", "a", "i", "l", "t", "o", ":">>
W_MAILTO == <<"M", "A", "I", "L", "T", "O", ":">>

\* settings.SECRET_KEY, and a key that is not the deployment's.
SECRET_KEY == "secret-key"
OtherKey == "other-key"

\* The signature django.core.signing.Signer computes: an HMAC of the value
\* under the key and the salt, equal for equal inputs only.
Signature(key, salt, value) == [key |-> key, salt |-> salt, value |-> value]

\* Signer(salt=...).sign_object(obj): the encoded object, ":", its signature.
sign_object(key, salt, obj) ==
    [sep |-> TRUE, value |-> obj, signature |-> Signature(key, salt, obj)]

\* A token parameter without the ":" separator (the empty default included).
Unsigned == [sep |-> FALSE]

\* Signer(salt="rsvp").unsign_object(token) raises BadSignature.
BadSignature(token) ==
    \/ ~token.sep
    \/ token.signature # Signature(SECRET_KEY, "rsvp", token.value)

\* A signed object: the keys it has and their values.
Payload(keys, uid, email, organizer) ==
    [keys |-> keys, uid |-> uid, email |-> email, organizer |-> organizer]
AllKeys == {"uid", "email", "organizer"}

\* The payload of the links of the invitation sent to B for A's event u1.
InvitationPayload == Payload(AllKeys, "u1", EmailB, EmailA)

RsvpPayloads ==
    { InvitationPayload,
      Payload(AllKeys, "u1", EmailB, W_MAILTO \o EmailA),
      Payload(AllKeys, "u1", EmailC, EmailA),
      Payload(AllKeys, "u9", EmailB, EmailA),
      Payload(AllKeys, "u1", EmailB, EmailB),
      Payload(AllKeys \ {"uid"}, "", EmailB, EmailA),
      Payload(AllKeys \ {"email"}, "u1", <<>>, EmailA),
      Payload(AllKeys \ {"organizer"}, "u1", EmailB, <<>>),
      Payload(AllKeys, "", EmailB, EmailA),
      Payload(AllKeys, "u1", <<>>, EmailA),
      Payload(AllKeys, "u1", EmailB, <<>>),
      Payload(AllKeys, "u1", EmailB, W_mailto) }

\* The token parameters: signed by this deployment for RSVP, signed under
\* another salt or another key, altered after signing, not signed at all.
RsvpTokens ==
    {sign_object(SECRET_KEY, "rsvp", p) : p \in RsvpPayloads}
    \cup { sign_object(SECRET_KEY, "other", InvitationPayload),
           sign_object(OtherKey, "rsvp", InvitationPayload),
           [sign_object(SECRET_KEY, "rsvp", InvitationPayload) EXCEPT
                !.value = Payload(AllKeys, "u1", EmailC, EmailA)],
           [sign_object(SECRET_KEY, "rsvp", InvitationPayload) EXCEPT
                !.signature = Signature(SECRET_KEY, "rsvp",
                                        Payload(AllKeys, "u9", EmailB, EmailA))],
           Unsigned }

\* request.GET: the action, "" when the parameter is missing.
RsvpRequests ==
    [action : {"accepted", "tentative", "declined", "maybe", ""},
     token : RsvpTokens]

\* A plausible slip: two values of the table exchanged.
PARTSTAT_VALUES_Exchanged ==
    ("accepted" :> "ACCEPTED") @@ ("tentative" :> "DECLINED")
        @@ ("declined" :> "TENTATIVE")

PARTSTAT_VALUES ==
    ("accepted" :> "ACCEPTED") @@ ("tentative" :> "TENTATIVE")
        @@ ("declined" :> "DECLINED")

\* re.sub(r"^mailto:", "", text, flags=re.IGNORECASE)
StripMailto(text) ==
    IF Len(text) >= Len(W_mailto) /\ Lower(SubSeq(text, 1, Len(W_mailto))) = W_mailto
    THEN SubSeq(text, Len(W_mailto) + 1, Len(text))
    ELSE text

\* sub in text
Contains(text, sub) ==
    \E i \in 0..(Len(text) - Len(sub)) : SubSeq(text, i + 1, i + Len(sub)) = sub

\* The event A organizes, as the CalDAV server stores it at its href.
W_u1ics == <<"u", "1", ".", "i", "c", "s">>
EventHref == base_uri_path \o JoinSlash(<<<<>>, W_calendars, EmailA, W_c1, W_u1ics>>)
Attendee(email, partstat) == [value |-> W_mailto \o email, PARTSTAT |-> partstat]
EventTimes == {None, "past", "future"}
Event(dtstart, dtend, invited) ==
    [uid |-> "u1", organizer |-> EmailA, dtstart |-> dtstart, dtend |-> dtend,
     attendees |-> [i \in DOMAIN invited |-> Attendee(invited[i], "NEEDS-ACTION")]]

\* Who is invited to the event: B and BB, or one of them only.
Invitations == {<<EmailB, EmailBB>>, <<EmailB>>, <<EmailBB>>}

\* _is_event_past: DTEND when it parses, else DTSTART, is before now.
IsEventPast(event) ==
    IF event.dtend # None THEN event.dtend = "past"
    ELSE IF event.dtstart # None THEN event.dtstart = "past"
    ELSE FALSE

\* _update_attendee_partstat: every ATTENDEE whose lower-cased value
\* contains the lower-cased email gets the PARTSTAT.
Matches(attendee, attendee_email) == Contains(Lower(attendee.value), Lower(attendee_email))
UpdateAttendeePartstat(event, attendee_email, new_partstat) ==
    [event EXCEPT !.attendees =
        [i \in DOMAIN event.attendees |->
            IF Matches(event.attendees[i], attendee_email)
            THEN [event.attendees[i] EXCEPT !.PARTSTAT = new_partstat]
            ELSE event.attendees[i]]]
AttendeeFound(event, attendee_email) ==
    \E i \in DOMAIN event.attendees : Matches(event.attendees[i], attendee_email)

\* The hrefs under which the organizer's calendars hold the uid.
FindEventInCaldav(organizer_email, event_uid) ==
    {href \in DOMAIN caldav :
        caldav[href].organizer = organizer_email /\ caldav[href].uid = event_uid}

RenderError(message, calls) == [status |-> 400, data |-> message, calls |-> calls]

\* payload.get(key) is missing or empty
Lacks(payload, key) ==
    \/ key \notin payload.keys
    \/ key = "uid" /\ payload.uid = ""
    \/ key = "email" /\ payload.email = <<>>
    \/ key = "organizer" /\ StripMailto(payload.organizer) = <<>>

\* A plausible slip: the payload is used without looking at the signature.
RsvpRejectsUnchecked(request) ==
    \/ request.action \notin DOMAIN PARTSTAT_VALUES
    \/ ~request.token.sep
    \/ \E key \in AllKeys : Lacks(request.token.value, key)

\* A plausible slip: a link counts once, and is refused when its attendee
\* has answered already.
RsvpRejectsAnswered(request) ==
    \/ request.action \notin DOMAIN PARTSTAT_VALUES
    \/ BadSignature(request.token)
    \/ \E key \in AllKeys : Lacks(request.token.value, key)
    \/ \E h \in DOMAIN caldav : \E i \in DOMAIN caldav[h].attendees :
        /\ caldav[h].attendees[i].value = W_mailto \o request.token.value.email
        /\ caldav[h].attendees[i].PARTSTAT # "NEEDS-ACTION"

\* RSVPView.get, lines 194-216: the request is answered with an error page
\* before anything is asked of the CalDAV server.
RsvpRejects(request) ==
    \/ request.action \notin DOMAIN PARTSTAT_VALUES
    \/ BadSignature(request.token)
    \/ \E key \in AllKeys : Lacks(request.token.value, key)

\* RSVPView.get up to the checks of the action, the token and its payload.
RsvpStart(w) ==
    /\ At(w, "rsvp", "request")
    /\ LET request == inflight[w].request
           payload == request.token.value
       IN  IF RsvpRejects(request)
           THEN Answer(w, RenderError("invalid link", <<>>))
           ELSE Proceed(w, "find",
                    [uid |-> payload.uid,
                     recipient_email |-> payload.email,
                     organizer_email |-> StripMailto(payload.organizer)])
    /\ UNCHANGED <<settings, user_table, tokens, uuids, caldav>>

\* What the CalDAV client library asks of the server for one lookup.
LookupCall(organizer_email, event_uid, outbound_api_key) ==
    [method |-> "REPORT", uid |-> event_uid,
     headers |-> ("X-Forwarded-User" :> organizer_email)
                 @@ ("X-Api-Key" :> outbound_api_key)]

\* What requests.put does: an exception, or the server's status.
PutOutcomes ==
    { [raised |-> TRUE],
      [raised |-> FALSE, status_code |-> 204],
      [raised |-> FALSE, status_code |-> 500] }

\* "if response.status_code in (200, 201, 204): return True"
PutSucceeded(upstream) == ~upstream.raised /\ upstream.status_code \in {200, 201, 204}

\* requests.put of _put_event_to_caldav
PutCall(organizer_email, href, icalendar_data, outbound_api_key) ==
    [method |-> "PUT", url |-> CALDAV_URL \o href, data |-> icalendar_data,
     headers |-> ("X-Forwarded-User" :> organizer_email)
                 @@ ("X-Api-Key" :> outbound_api_key)]

\* RSVPView.get, lines 218-242: the event is looked up in the organizer's
\* calendars, then checked for its end and for the attendee.
RsvpFind(w) ==
    /\ At(w, "rsvp", "find")
    /\ LET locals == inflight[w].locals
           outbound_api_key == settings.CALDAV_OUTBOUND_API_KEY
           lookup == LookupCall(locals.organizer_email, locals.uid, outbound_api_key)
           found == FindEventInCaldav(locals.organizer_email, locals.uid)
           href == CHOOSE h \in found : TRUE
           partstat == PARTSTAT_VALUES[inflight[w].request.action]
       IN  IF outbound_api_key = ""
           THEN Answer(w, RenderError("event not found", <<>>))
           ELSE \E raised \in BOOLEAN :
                IF raised \/ found = {}
                THEN Answer(w, RenderError("event not found", <<lookup>>))
                ELSE IF IsEventPast(caldav[href])
                THEN Answer(w, RenderError("event is past", <<lookup>>))
                ELSE IF ~AttendeeFound(caldav[href], locals.recipient_email)
                THEN Answer(w, RenderError("not an attendee", <<lookup>>))
                ELSE Proceed(w, "put",
                        [organizer_email |-> locals.organizer_email,
                         href |-> href,
                         updated_data |-> UpdateAttendeePartstat(
                             caldav[href], locals.recipient_email, partstat),
                         calls |-> <<lookup>>])
    /\ UNCHANGED <<settings, user_table, tokens, uuids, caldav>>

\* RSVPView.get, lines 244-270: the PUT of the updated event, which the
\* server stores or refuses.
RsvpPut(w) ==
    /\ At(w, "rsvp", "put")
    /\ LET locals == inflight[w].locals
           put == PutCall(locals.organizer_email, locals.href, locals.updated_data,
                          settings.CALDAV_OUTBOUND_API_KEY)
       IN  \E upstream \in PutOutcomes :
            LET calls == Append(locals.calls, put @@ ("response" :> upstream))
            IN  IF PutSucceeded(upstream)
                THEN /\ caldav' = [caldav EXCEPT ![locals.href] = locals.updated_data]
                     /\ Answer(w, [status |-> 200, data |-> "response sent",
                                   calls |-> calls])
                ELSE /\ Answer(w, RenderError("update failed", calls))
                     /\ UNCHANGED caldav
    /\ UNCHANGED <<settings, user_table, tokens, uuids>>

\* One worker answers the RSVP links, for an event with or without dates in
\* the past, with the outbound API key configured or not.
InitRsvp ==
    /\ settings \in {c \in SettingsChoices : c.CALDAV_CALLBACK_BASE_URL = None}
    /\ tokens = {}
    /\ user_table = RegisteredUsers
    /\ uuids = 0
    /\ inflight = [w \in {1} |-> Idle]
    /\ \E dtstart \in EventTimes, dtend \in EventTimes, invited \in Invitations :
        caldav = (EventHref :> Event(dtstart, dtend, invited))
NextRsvp ==
    \/ \E w \in DOMAIN inflight : Receive(w, "rsvp", RsvpRequests)
    \/ \E w \in DOMAIN inflight : RsvpStart(w)
    \/ \E w \in DOMAIN inflight : RsvpFind(w)
    \/ \E w \in DOMAIN inflight : RsvpPut(w)
    \/ \E w \in DOMAIN inflight : Finish(w)
SpecRsvp == InitRsvp /\ [][NextRsvp]_vars

\* The request cannot be acted on: its action is none of the three, or its
\* token is missing, not signed by this deployment under the salt "rsvp",
\* or altered after signing, or what was signed lacks a uid, an email or an
\* organizer.
InvalidLink(request) ==
    \/ request.action \notin {"accepted", "tentative", "declined"}
    \/ request.token \notin
        {sign_object(SECRET_KEY, "rsvp", p) :
            p \in {q \in RsvpPayloads :
                    /\ q.keys = AllKeys
                    /\ q.uid # ""
                    /\ q.email # <<>>
                    /\ q.organizer \notin {<<>>, W_mailto}}}

\* C10: an RSVP request with an invalid action, a missing, unsigned, wrongly
\* signed or altered token, or a signed payload without uid, email or
\* organizer, is answered 400 in its first step, with no CalDAV lookup and no
\* CalDAV PUT, and the stored event is unchanged.
C10_InvalidLinkIs400WithoutCalDAV ==
    [][\A w \in DOMAIN inflight :
        /\ inflight[w].phase = "request"
        /\ inflight[w].view = "rsvp"
        /\ inflight'[w] # inflight[w]
        /\ InvalidLink(inflight[w].request)
        => /\ inflight'[w].phase = "response"
           /\ inflight'[w].response.status = 400
           /\ inflight'[w].response.calls = <<>>
           /\ caldav' = caldav]_vars

\* A link whose token was altered after signing (the attendee replaced) was
\* answered 400 with nothing asked of the CalDAV server.
C10_Witness ==
    \E w \in AnsweredBy("rsvp") :
        /\ inflight[w].request.action = "accepted"
        /\ inflight[w].request.token.sep
        /\ inflight[w].request.token.value = Payload(AllKeys, "u1", EmailC, EmailA)
        /\ inflight[w].request.token.signature =
                Signature(SECRET_KEY, "rsvp", InvitationPayload)
        /\ inflight[w].response.status = 400
        /\ inflight[w].response.calls = <<>>
        /\ settings.CALDAV_OUTBOUND_API_KEY # ""

\* ---------------------------------------------------------------------------
\* RSVP links: the lookup, the checks and the PUT
\* ---------------------------------------------------------------------------

\* The address is the ATTENDEE's own address, letter case aside.
IsAttendee(event, email) ==
    \E i \in DOMAIN event.attendees :
        Lower(event.attendees[i].value) = Lower(W_mailto \o email)

\* The event has ended: its DTEND, or without one its DTSTART, is before now.
Ended(event) ==
    IF event.dtend # None THEN event.dtend = "past" ELSE event.dtstart = "past"

\* The events of the organizer with the uid.
EventsOf(organizer, uid) ==
    {h \in DOMAIN caldav : caldav[h].organizer = organizer /\ caldav[h].uid = uid}

\* The PUTs among the calls made for a request, and the successful ones.
Puts(calls) == {i \in DOMAIN calls : calls[i].method = "PUT"}
PutsDone(calls) ==
    {i \in Puts(calls) : /\ ~calls[i].response.raised
                         /\ calls[i].response.status_code \in {200, 201, 204}}

\* Worker w goes on from the lookup of an RSVP request.
FindStep(w) ==
    /\ inflight[w].phase = "find"
    /\ inflight[w].view = "rsvp"
    /\ inflight'[w] # inflight[w]

\* C11, as stated: an RSVP request whose event is not found, has ended, or
\* does not have the token's email among its attendees is answered 400
\* without a PUT; the answer is 200 exactly when a PUT was issued and
\* succeeded.
C11_PutOnlyAfterEveryCheck ==
    [][\A w \in DOMAIN inflight :
        /\ FindStep(w)
             /\ (LET found == EventsOf(inflight[w].locals.organizer_email,
                                       inflight[w].locals.uid)
                 IN  \/ found = {}
                     \/ \E h \in found :
                         \/ Ended(caldav[h])
                         \/ ~IsAttendee(caldav[h], inflight[w].locals.recipient_email))
           => /\ inflight'[w].phase = "response"
              /\ inflight'[w].response.status = 400
              /\ Puts(inflight'[w].response.calls) = {}
        /\ inflight'[w].phase = "response" /\ inflight'[w].view = "rsvp"
           => (inflight'[w].response.status = 200
                <=> PutsDone(inflight'[w].response.calls) # {})]_vars

\* The PARTSTAT an action stands for.
PartstatOf(action) ==
    CASE action = "accepted" -> "ACCEPTED"
      [] action = "tentative" -> "TENTATIVE"
      [] action = "declined" -> "DECLINED"

\* The organizer a token names, a mailto: prefix in any letter case aside.
OrganizerOf(payload) ==
    IF Len(payload.organizer) >= 7 /\ Lower(SubSeq(payload.organizer, 1, 7)) = W_mailto
    THEN SubSeq(payload.organizer, 8, Len(payload.organizer))
    ELSE payload.organizer

\* The ATTENDEE is the one the token names.
TokenAttendee(attendee, payload) == Lower(attendee.value) = Lower(W_mailto \o payload.email)

UpperChar(c) ==
    IF \E i \in DOMAIN LowerCase : LowerCase[i] = c
    THEN UpperCase[CHOOSE i \in DOMAIN LowerCase : LowerCase[i] = c]
    ELSE c
Upper(s) == [i \in 1..Len(s) |-> UpperChar(s[i])]

\* str.replace("mailto:", ""): every occurrence, in the case written.
RECURSIVE ReplaceMailto(_)
ReplaceMailto(text) ==
    IF text = <<>> THEN <<>>
    ELSE IF StartsWith(text, W_mailto)
    THEN ReplaceMailto(SubSeq(text, Len(W_mailto) + 1, Len(text)))
    ELSE <<Head(text)>> \o ReplaceMailto(Tail(text))

\* settings.CALDAV_INBOUND_API_KEY when configured, and what X-Api-Key may
\* hold: nothing, the key, the key between blanks, another key, a value
\* with a character outside ASCII.
InboundKey == <<"k", "1">>
NonAsciiChars == {"é"}
ApiKeyHeaders ==
    { <<>>, InboundKey, <<" ">> \o InboundKey \o <<" ">>, <<"k", "2">>,
      <<"k", "é">> }

\* settings of a deployment that sends invitations.
APP_URL == "http://app"
InvitationSettings ==
    { [CALDAV_OUTBOUND_API_KEY |-> "outbound-key",
       CALDAV_CALLBACK_BASE_URL |-> None,
       CALDAV_INBOUND_API_KEY |-> k,
       APP_URL |-> APP_URL] : k \in {<<>>, InboundKey} }

\* secrets.compare_digest on two str: TypeError unless both are ASCII.
compare_digest(a, b) ==
    IF \E i \in DOMAIN a : a[i] \in NonAsciiChars
    THEN [raised |-> TRUE]
    ELSE IF \E i \in DOMAIN b : b[i] \in NonAsciiChars
    THEN [raised |-> TRUE]
    ELSE [raised |-> FALSE, equal |-> (a = b)]

\* iTip methods
METHOD_REQUEST == <<"R", "E", "Q", "U", "E", "S", "T">>
METHOD_CANCEL == <<"C", "A", "N", "C", "E", "L">>
METHOD_REPLY == <<"R", "E", "P", "L", "Y">>

\* The iCalendar data of a scheduling message: nothing, or a VEVENT with
\* its UID and DTSTART (None when absent), its ORGANIZER value (empty when
\* absent) and SEQUENCE.
EmptyBody == [size |-> 0]
ICalendar(uid, dtstart, organizer_value) ==
    [size |-> 1, uid |-> uid, dtstart |-> dtstart,
     organizer_value |-> organizer_value, sequence |-> 0]
EmailB_Mixed == <<"B", "@", "x">>

\* ICalendarParser.parse: nothing without UID or DTSTART; the organizer with
\* "mailto:" replaced, the recipient with "mailto:" replaced in lower case.
NotParsed == [parsed |-> FALSE]
Parse(icalendar, recipient_email) ==
    IF icalendar.uid = None \/ icalendar.dtstart = None
    THEN NotParsed
    ELSE [parsed |-> TRUE,
          uid |-> icalendar.uid,
          dtstart |-> icalendar.dtstart,
          organizer_email |-> Strip(ReplaceMailto(icalendar.organizer_value)),
          attendee_email |-> Lower(ReplaceMailto(recipient_email)),
          sequence |-> icalendar.sequence]

\* "{base}?{urlencode({'token': token, 'action': ...})}" under APP_URL/rsvp/
RsvpUrl(app_url, token, action) ==
    [app_url |-> app_url, path |-> "/rsvp/", token |-> token, action |-> action]

\* The context keys of the RSVP links and the action each link carries.
RsvpUrlKeys ==
    ("rsvp_accept_url" :> "accepted") @@ ("rsvp_tentative_url" :> "tentative")
        @@ ("rsvp_decline_url" :> "declined")

\* A plausible slip: the organizer is signed as the parser left it.
RsvpTokenPayloadKeepingPrefix(event) ==
    Payload(AllKeys, event.uid, event.attendee_email, event.organizer_email)

\* The object _build_template_context signs.
RsvpTokenPayload(event) ==
    Payload(AllKeys, event.uid, event.attendee_email,
            StripMailto(event.organizer_email))

\* A plausible slip: the links are added whatever the method.
HasRsvpLinksAlways(method) == TRUE

\* "if method == self.METHOD_REQUEST"
HasRsvpLinks(method) == method = METHOD_REQUEST

\* A plausible slip: the sequence number is looked at before the method.
TypeKeyUpdateFirst(event, method) ==
    IF event.sequence > 0 THEN "update"
    ELSE IF method = METHOD_CANCEL THEN "cancel"
    ELSE IF method = METHOD_REPLY THEN "reply"
    ELSE "invitation"

\* "Determine email type key for content lookups"
TypeKey(event, method) ==
    IF method = METHOD_CANCEL THEN "cancel"
    ELSE IF method = METHOD_REPLY THEN "reply"
    ELSE IF event.sequence > 0 THEN "update"
    ELSE "invitation"

\* The translated content blocks: the keys looked up for each of them.
Content(type_key) ==
    [block \in {"title", "heading", "body", "badge"} |->
        [prefix |-> "email", type_key |-> type_key, block |-> block]]

\* _build_template_context: the event's details, the content blocks, and
\* for REQUEST the three RSVP links with one token.
BuildTemplateContext(event, method) ==
    LET context == ("event" :> [uid |-> event.uid,
                                organizer_email |-> event.organizer_email,
                                attendee_email |-> event.attendee_email])
                   @@ ("app_url" :> settings.APP_URL)
                   @@ ("is_update" :> (event.sequence > 0))
                   @@ ("is_cancel" :> (method = METHOD_CANCEL))
                   @@ ("content" :> Content(TypeKey(event, method)))
                   @@ ("instructions" :>
                        [prefix |-> "email.instructions",
                         type_key |-> TypeKey(event, method)])
        token == sign_object(SECRET_KEY, "rsvp", RsvpTokenPayload(event))
    IN  IF HasRsvpLinks(method)
        THEN [key \in DOMAIN RsvpUrlKeys |->
                 RsvpUrl(settings.APP_URL, token, RsvpUrlKeys[key])] @@ context
        ELSE context

\* The subject send_invitation chooses: the key of its translation.
Subject(event, method) ==
    IF method = METHOD_CANCEL THEN "email.subject.cancel"
    ELSE IF method = METHOD_REPLY THEN "email.subject.reply"
    ELSE IF event.sequence > 0 THEN "email.subject.update"
    ELSE "email.subject.invitation"

\* The template send_invitation chooses.
TemplatePrefix(event, method) ==
    IF method = METHOD_CANCEL THEN "calendar_invitation_cancel"
    ELSE IF method = METHOD_REPLY THEN "calendar_invitation_reply"
    ELSE IF event.sequence > 0 THEN "calendar_invitation_update"
    ELSE "calendar_invitation"

\* send_invitation: False when the data cannot be parsed or the email
\* cannot be delivered, else the email leaves and the result is True.
SendInvitation(sender_email, recipient_email, method, icalendar_data, delivered) ==
    LET sender == Strip(ReplaceMailto(sender_email))
        recipient == Strip(ReplaceMailto(recipient_email))
        event == Parse(icalendar_data, recipient)
    IN  IF ~event.parsed \/ ~delivered
        THEN [success |-> FALSE, outbox |-> <<>>]
        ELSE [success |-> TRUE,
              outbox |-> << [from_email |-> sender, to |-> recipient,
                             subject |-> Subject(event, method),
                             template_prefix |-> TemplatePrefix(event, method),
                             ics_method |-> method,
                             context |-> BuildTemplateContext(event, method)] >>]

\* The scheduling messages the callback receives.
CallbackRequests ==
    [api_key : ApiKeyHeaders,
     sender : {W_mailto \o EmailA, <<>>},
     recipient : {W_mailto \o EmailB, W_mailto \o EmailB_Mixed, <<>>},
     method : {METHOD_REQUEST, Lower(METHOD_REQUEST), METHOD_CANCEL,
               METHOD_REPLY, <<>>},
     body : {EmptyBody,
             ICalendar(None, "future", W_mailto \o EmailA),
             ICalendar("u1", "future", W_mailto \o EmailA),
             ICalendar("u1", "future", W_MAILTO \o EmailA)}]

CallbackResponse(status, data, calls, outbox) ==
    [status |-> status, data |-> data, calls |-> calls, outbox |-> outbox]

\* CalDAVSchedulingCallbackView.dispatch
SchedulingCallback(w) ==
    /\ At(w, "caldav-scheduling-callback", "request")
    /\ LET request == inflight[w].request
           api_key == Strip(request.api_key)
           expected_key == settings.CALDAV_INBOUND_API_KEY
           compared == compare_digest(api_key, expected_key)
           sender == request.sender
           recipient == request.recipient
           method == Upper(request.method)
           call == [sender_email |-> sender, recipient_email |-> recipient,
                    method |-> method, icalendar_data |-> request.body]
       IN  IF expected_key = <<>>
           THEN Answer(w, CallbackResponse(401, "", <<>>, <<>>))
           ELSE IF compared.raised
           THEN Answer(w, CallbackResponse(500, "TypeError", <<>>, <<>>))
           ELSE IF ~compared.equal
           THEN Answer(w, CallbackResponse(401, "", <<>>, <<>>))
           ELSE IF sender = <<>> \/ recipient = <<>> \/ method = <<>>
           THEN Answer(w, CallbackResponse(400, "Missing required headers", <<>>, <<>>))
           ELSE IF request.body.size = 0
           THEN Answer(w, CallbackResponse(400, "Missing iCalendar data", <<>>, <<>>))
           ELSE \E delivered \in BOOLEAN :
                LET sent == SendInvitation(sender, recipient, method,
                                           request.body, delivered)
                IN  IF sent.success
                    THEN Answer(w, CallbackResponse(200, "OK", <<call>>, sent.outbox))
                    ELSE Answer(w, CallbackResponse(500, "Failed to send email",
                                                    <<call>>, sent.outbox))
    /\ UNCHANGED <<settings, user_table, tokens, uuids, caldav>>

\* The RSVP links of the emails an answered callback has sent.
LinksSent ==
    UNION { { email.context[key] : key \in DOMAIN RsvpUrlKeys \cap DOMAIN email.context }
            : email \in UNION { {inflight[v].response.outbox[i] :
                                    i \in DOMAIN inflight[v].response.outbox}
                                : v \in {u \in DOMAIN inflight :
                                    /\ inflight[u].phase = "response"
                                    /\ inflight[u].view = "caldav-scheduling-callback"} } }

\* The recipient of an invitation follows one of its links.
FollowLink(w) ==
    /\ inflight[w] = Idle
    /\ \E url \in LinksSent :
        inflight' = [inflight EXCEPT ![w] =
            Received("rsvp", [action |-> url.action, token |-> url.token])]
    /\ UNCHANGED <<settings, user_table, tokens, uuids, caldav>>

\* The callback worker and the worker of the RSVP links; A's event u1 is
\* to come, with B invited under an address in lower or in mixed case.
CallbackWorkers == {1}
RsvpWorkers == {2}
InitInvitation ==
    /\ settings \in InvitationSettings
    /\ tokens = {}
    /\ user_table = RegisteredUsers
    /\ uuids = 0
    /\ inflight = [w \in CallbackWorkers \cup RsvpWorkers |-> Idle]
    /\ \E invited \in {<<EmailB>>, <<EmailB_Mixed>>} :
        caldav = (EventHref :> Event("future", "future", invited))
NextInvitation ==
    \/ \E w \in CallbackWorkers :
        Receive(w, "caldav-scheduling-callback", CallbackRequests)
    \/ \E w \in CallbackWorkers : SchedulingCallback(w)
    \/ \E w \in RsvpWorkers : FollowLink(w)
    \/ \E w \in RsvpWorkers : RsvpStart(w)
    \/ \E w \in RsvpWorkers : RsvpFind(w)
    \/ \E w \in RsvpWorkers : RsvpPut(w)
    \/ \E w \in DOMAIN inflight : Finish(w)
SpecInvitation == InitInvitation /\ [][NextInvitation]_vars


\* The address a header or a property value holds: the blanks around it and
\* a mailto: prefix, in any letter case, aside.
Address(text) == StripMailto(Strip(text))

CallbackAnswered(w) ==
    /\ inflight[w].phase = "response"
    /\ inflight[w].view = "caldav-scheduling-callback"

\* The emails an answered callback has sent.
Outbox(w) == {inflight[w].response.outbox[i] : i \in DOMAIN inflight[w].response.outbox}

\* The RSVP links of an email.
LinksOf(email) == {email.context[key] : key \in DOMAIN RsvpUrlKeys \cap DOMAIN email.context}

\* Every link of every invitation sent is accepted by RSVPView, and what
\* its token unsigns to names the event, the recipient (in lower case when
\* folded) and the organizer of the scheduling message.
LinksNameEventAndRecipient(folded) ==
    \A w \in DOMAIN inflight : CallbackAnswered(w) =>
        \A email \in Outbox(w) : \A url \in LinksOf(email) :
            LET request == inflight[w].request
                payload == url.token.value
                recipient == Address(request.recipient)
            IN  /\ ~RsvpRejects([action |-> url.action, token |-> url.token])
                /\ ~BadSignature(url.token)
                /\ payload.keys = AllKeys
                /\ payload.uid = request.body.uid
                /\ payload.email = IF folded THEN Lower(recipient) ELSE recipient
                /\ payload.organizer = Address(request.body.organizer_value)
                /\ ~StartsWith(Lower(payload.organizer), W_mailto)

\* An RSVP answered 200 has set the PARTSTAT of the action on the attendee
\* the token names, in the event the token names.
LinkActsOnTokenAttendee ==
    \A w \in DOMAIN inflight :
        Responds(w, "rsvp") /\ inflight'[w].response.status = 200
        => LET payload == inflight[w].request.token.value
           IN  \E h \in EventsOf(payload.organizer, payload.uid) :
                \E i \in DOMAIN caldav'[h].attendees :
                    /\ Lower(Address(caldav'[h].attendees[i].value)) = Lower(payload.email)
                    /\ caldav'[h].attendees[i].PARTSTAT
                         = PartstatOf(inflight[w].request.action)

C14_RsvpUrlsIffRequest ==
    \A w \in DOMAIN inflight : CallbackAnswered(w) =>
        \A email \in Outbox(w) :
            LET context == email.context
                present == {"rsvp_accept_url", "rsvp_tentative_url", "rsvp_decline_url"}
                              \cap DOMAIN context
            IN  /\ email.ics_method = METHOD_REQUEST
                   <=> present = {"rsvp_accept_url", "rsvp_tentative_url", "rsvp_decline_url"}
                /\ email.ics_method # METHOD_REQUEST => present = {}
                /\ email.ics_method \in {METHOD_CANCEL, METHOD_REPLY} => present = {}
                /\ email.ics_method = METHOD_REQUEST
                   => /\ context["rsvp_accept_url"].action = "accepted"
                      /\ context["rsvp_tentative_url"].action = "tentative"
                      /\ context["rsvp_decline_url"].action = "declined"
                      /\ context["rsvp_accept_url"].token = context["rsvp_tentative_url"].token
                      /\ context["rsvp_accept_url"].token = context["rsvp_decline_url"].token

\* An invitation (method sent as "request") has left with its three links.
C14_Witness ==
    \E w \in DOMAIN inflight :
        /\ CallbackAnswered(w)
        /\ inflight[w].request.method = Lower(METHOD_REQUEST)
        /\ \E email \in Outbox(w) :
            /\ email.ics_method = METHOD_REQUEST
            /\ Cardinality(LinksOf(email)) = 3

\* C15: a scheduling message whose X-Api-Key is not CALDAV_INBOUND_API_KEY,
\* or that arrives while no key is configured, is answered 401 and
\* send_invitation is not called, whatever else it holds.
C15_UnauthenticatedIs401 ==
    \A w \in DOMAIN inflight :
        /\ CallbackAnswered(w)
        /\ \/ inflight[w].request.api_key # settings.CALDAV_INBOUND_API_KEY
           \/ settings.CALDAV_INBOUND_API_KEY = <<>>
        => /\ inflight[w].response.status = 401
           /\ inflight[w].response.calls = <<>>
           /\ inflight[w].response.outbox = <<>>


\* ---------------------------------------------------------------------------
\* Exports that interleave
\* ---------------------------------------------------------------------------

\* The export requests with who sends them: the view reads the token only.
ExportRequestsBy(users) ==
    {r @@ ("user" :> u) : r \in ExportRequests, u \in users}

\* Two workers: A creates tokens for two calendars, the tokens are used for
\* exports by B and by anonymous clients, and rows are deactivated, with the
\* outbound API key configured or not.
InitExport ==
    InitTokens({1, 2}, {c \in SettingsChoices : c.CALDAV_CALLBACK_BASE_URL = None})
NextExport ==
    \/ \E w \in DOMAIN inflight :
        Receive(w, "subscription-tokens-create",
                CreateRequests({UserA}, {PathA1, PathA2}, {}))
    \/ \E w \in DOMAIN inflight :
        Receive(w, "ical-export", ExportRequestsBy({UserB, AnonymousUser}))
    \/ \E w \in DOMAIN inflight : ExportStart(w)
    \/ \E w \in DOMAIN inflight : ExportTouch(w)
    \/ Deactivate
    \/ \E w \in DOMAIN inflight : CreateStart(w)
    \/ \E w \in DOMAIN inflight : CreateInsert(w)
    \/ \E w \in DOMAIN inflight : CreateReget(w)
    \/ \E w \in DOMAIN inflight : CreateFound(w)
    \/ \E w \in DOMAIN inflight : Finish(w)
SpecExport == InitExport /\ [][NextExport]_vars


\* The worker passes from the lookup of an export to its next step.
LookupStep(w) ==
    /\ inflight[w].phase = "request"
    /\ inflight[w].view = "ical-export"
    /\ inflight'[w] # inflight[w]

\* The worker runs the UPDATE of an export and answers.
TouchStep(w) ==
    /\ inflight[w].phase = "touch"
    /\ inflight[w].view = "ical-export"
    /\ inflight'[w] # inflight[w]

\* The rows an export request's token names, while active.
ActiveRows(rows, token) == {t \in rows : t.token = token /\ t.is_active}

\* An export that found its token active is not answered before the UPDATE,
\* and reads only; the UPDATE leaves every active row of the token with a
\* last_accessed_at, changes nothing else in it, and leaves every other row
\* as it was, whatever the answer is.
ExportTouchesItsTokenOnly ==
    \A w \in DOMAIN inflight :
        /\ LookupStep(w)
           => /\ tokens' = tokens
              /\ ActiveRows(tokens, inflight[w].request.token) # {}
                 => inflight'[w].phase = "touch"
        /\ TouchStep(w)
           => LET token == inflight[w].request.token
              IN  /\ inflight'[w].phase = "response"
                  /\ inflight'[w].response.status \in {200, 500, 502}
                  /\ settings.CALDAV_OUTBOUND_API_KEY = ""
                     => inflight'[w].response.status = 500
                  /\ Cardinality(tokens') = Cardinality(tokens)
                  /\ \A t \in ActiveRows(tokens, token) :
                        \E u \in tokens' :
                            /\ u.last_accessed_at # None
                            /\ u = [t EXCEPT !.last_accessed_at = u.last_accessed_at]
                  /\ \A t \in tokens \ ActiveRows(tokens, token) : t \in tokens'

\* An export answered otherwise than 404 has left its token, if still
\* active, with a last_accessed_at.
AnsweredExportHasTouched ==
    \A w \in DOMAIN inflight :
        /\ inflight[w].phase = "response"
        /\ inflight[w].view = "ical-export"
        /\ inflight[w].response.status # 404
        => \A t \in ActiveRows(tokens, inflight[w].request.token) :
                t.last_accessed_at # None

\* C16: every export request that finds its token active sets that row's
\* last_accessed_at to a time, changes no other field and no other row, also
\* when exports of the same token interleave, when the upstream call fails
\* (502) and when the outbound API key is missing (500).
C16_ExportSetsLastAccessedAt ==
    /\ []AnsweredExportHasTouched
    /\ [][ExportTouchesItsTokenOnly]_vars

\* Two exports of token 1 interleave: one was answered 502 while the other
\* is between its lookup and its UPDATE; the row has a last_accessed_at and a
\* second row has none.
C16_Witness ==
    /\ inflight[1].phase = "response"
    /\ inflight[1].view = "ical-export"
    /\ inflight[1].request.token = 1
    /\ inflight[1].response.status = 502
    /\ inflight[2].phase = "touch"
    /\ inflight[2].view = "ical-export"
    /\ inflight[2].request.token = 1
    /\ \E t \in tokens : t.token = 1 /\ t.is_active /\ t.last_accessed_at = Now
    /\ \E t \in tokens : t.token = 2 /\ t.last_accessed_at = None

W_export == <<"?", "e", "x", "p", "o", "r", "t">>

\* The upstream calls of an export answered after its UPDATE: one GET for
\* the row the lookup found, as the row's owner, under the given path.
ExportCallsFor(w, path_of(_)) ==
    LET row == inflight[w].locals.subscription
        calls == inflight'[w].response.calls
    IN  /\ Len(calls) = 1
        /\ calls[1].method = "GET"
        /\ calls[1].url = CALDAV_URL \o <<"/", "a", "p", "i", "/", "v", "1", ".", "0",
                                          "/", "c", "a", "l", "d", "a", "v", "/">>
                                     \o path_of(row) \o W_export
        /\ DOMAIN calls[1].headers = {"X-Forwarded-User", "X-Api-Key"}
        /\ calls[1].headers["X-Forwarded-User"] = row.owner
        /\ calls[1].headers["X-Api-Key"] = settings.CALDAV_OUTBOUND_API_KEY
        /\ row.token = inflight[w].request.token

RowPath(row) == row.caldav_path
RowPathUnderBase(row) == LStripSlash(row.caldav_path)

W_base == <<"/", "a", "p", "i", "/", "v", "1", ".", "0", "/", "c", "a", "l", "d", "a", "v", "/">>

\* The answered request was forwarded once, with its method, to the given
\* URL, and what the CalDAV server answered came back as it was.
ForwardedOnce(w, url) ==
    LET request == inflight[w].request
        response == inflight[w].response
        calls == response.calls
    IN  /\ Len(calls) = 1
        /\ calls[1].method = request.method
        /\ calls[1].url = url
        /\ ~calls[1].response.raised
           => /\ response.status = calls[1].response.status_code
              /\ response.content = calls[1].response.content

ProxyFailuresAnswered(selected(_)) ==
    \A w \in AnsweredBy("caldav-proxy") :
        LET request == inflight[w].request
            response == inflight[w].response
        IN  /\ /\ selected(request)
               /\ settings.CALDAV_OUTBOUND_API_KEY = ""
               => /\ response.status = 500
                  /\ response.calls = <<>>
            /\ /\ response.calls # <<>>
               /\ response.calls[1].response.raised
               => /\ response.status = 502
                  /\ response.headers["Content-Type"] = "text/plain"

Authenticated(request) == request.user.is_authenticated
AuthenticatedNotPreflight(request) ==
    request.user.is_authenticated /\ request.method # "OPTIONS"

\* C19: with CALDAV_OUTBOUND_API_KEY empty an authenticated request other
\* than OPTIONS is answered 500 and nothing is sent upstream; when the
\* upstream call raises a RequestException the answer is 502 with a
\* text/plain body.
C19_FailuresBecomeResponses == ProxyFailuresAnswered(AuthenticatedNotPreflight)

\* C19 as stated: every authenticated request is answered 500 while the key
\* is empty.
C19_EveryAuthenticatedIs500 == ProxyFailuresAnswered(Authenticated)

\* With the key empty, A's PROPFIND was answered 500 and nothing was sent.
C19_Witness ==
    \E w \in AnsweredBy("caldav-proxy") :
        /\ settings.CALDAV_OUTBOUND_API_KEY = ""
        /\ inflight[w].request.user = UserA
        /\ inflight[w].request.method = "PROPFIND"
        /\ inflight[w].response.status = 500
        /\ inflight[w].response.calls = <<>>


\* ---------------------------------------------------------------------------
\* ICS import
\* ---------------------------------------------------------------------------

\* The events of an ICS file, and the files of up to MaxEvents events.
MaxEvents == 3
IcsEvents == {"VEVENT:e1", "VEVENT:e2"}
IcsFiles == UNION {[1..n -> IcsEvents] : n \in 0..MaxEvents}

W_import == <<"?", "i", "m", "p", "o", "r", "t">>

\* self.base_url = settings.CALDAV_URL.rstrip("/")
base_url == RStripSlash(CALDAV_URL)

\* A plausible slip: the path is appended to the server's URL as given.
ImportUrlWithoutPrefix(caldav_path) == base_url \o caldav_path \o W_import

\* Lines 56-60: the base URI is put before a path that lacks it.
ImportUrl(caldav_path) ==
    LET base_uri == base_uri_path \o Sl
    IN  IF ~StartsWith(caldav_path, base_uri)
        THEN base_url \o RStripSlash(base_uri) \o caldav_path \o W_import
        ELSE base_url \o caldav_path \o W_import

\* The headers of the import POST: lines 67-72
ImportHeaders(user, outbound_api_key) ==
    ("Content-Type" :> "text/calendar") @@ ("X-Api-Key" :> outbound_api_key)
    @@ ("X-Forwarded-User" :> user.email) @@ ("X-Calendars-Import" :> outbound_api_key)

ImportResult(total_events, imported_count, duplicate_count, skipped_count, errors) ==
    [total_events |-> total_events, imported_count |-> imported_count,
     duplicate_count |-> duplicate_count, skipped_count |-> skipped_count,
     errors |-> errors]

\* An entry of the "errors" list the import plugin reports: an object with
\* some of the keys uid, summary and error, or a plain string.
ErrorObject(keys, uid, summary) ==
    [is_dict |-> TRUE, keys |-> keys, uid |-> uid, summary |-> summary,
     error |-> "Some CalDAV error"]
ErrorString == [is_dict |-> FALSE, text |-> "SQLSTATE[23000]: constraint violation"]

\* The entries documented for the errors of an ImportResult.
MaxErrors == 10

\* The lists of errors the plugin may report for a file that has events:
\* none, one of each shape, or one more than MaxErrors.
ReportedErrors ==
    { <<>>,
      <<ErrorObject({"uid", "summary", "error"}, "event-2", "Afternoon review")>>,
      <<ErrorObject({"uid", "summary", "error"}, "event-2", "")>>,
      <<ErrorObject({"uid", "error"}, "event-2", "")>>,
      <<ErrorObject({"error"}, "", "")>>,
      <<ErrorString>>,
      [i \in 1..(MaxErrors + 1) |->
          ErrorObject({"uid", "summary", "error"}, "event-2", "Afternoon review")] }

\* The JSON body of the plugin's answer.
ImportData(total_events, imported_count, errors) ==
    [total_events |-> total_events, imported_count |-> imported_count,
     duplicate_count |-> 0, skipped_count |-> total_events - imported_count,
     errors |-> errors]

\* What requests.post does for a file: it raises, or the import plugin
\* answers with a body that is not JSON (with status 200 or not), or with
\* its counts and errors (with status 200 or not).
ImportOutcomes(ics_data) ==
    { [raised |-> TRUE],
      [raised |-> FALSE, status_code |-> 400, json |-> FALSE],
      [raised |-> FALSE, status_code |-> 200, json |-> FALSE] }
    \cup
    { [raised |-> FALSE, status_code |-> code, json |-> TRUE,
       data |-> ImportData(Len(ics_data), Len(ics_data), <<>>)] : code \in {200, 207} }
    \cup
    (IF ics_data = <<>> THEN {}
     ELSE { [raised |-> FALSE, status_code |-> 200, json |-> TRUE,
             data |-> ImportData(Len(ics_data), Len(ics_data) - 1, errors)]
            : errors \in ReportedErrors \ {<<>>} })

\* err.get("summary") or err.get("uid", "Unknown event"), or str(err)
ErrorName(err) ==
    IF err.is_dict
    THEN IF "summary" \in err.keys /\ err.summary # "" THEN err.summary
         ELSE IF "uid" \in err.keys THEN err.uid
         ELSE "Unknown event"
    ELSE err.text

FailedImport(message) == ImportResult(0, 0, 0, 0, <<message>>)

\* A plausible slip: the status of the answer is not looked at.
ImportResultOfAnyStatus(upstream) ==
    IF upstream.raised
    THEN FailedImport("Failed to reach CalDAV server")
    ELSE IF ~upstream.json
    THEN FailedImport("Invalid response from CalDAV server")
    ELSE ImportResult(upstream.data.total_events, upstream.data.imported_count,
                      upstream.data.duplicate_count, upstream.data.skipped_count,
                      [i \in DOMAIN upstream.data.errors |->
                          ErrorName(upstream.data.errors[i])])

\* Lines 74-123: the result import_events returns after the POST.
ImportResultOf(upstream) ==
    IF upstream.raised
    THEN FailedImport("Failed to reach CalDAV server")
    ELSE IF upstream.status_code # 200
    THEN FailedImport("CalDAV server error")
    ELSE IF ~upstream.json
    THEN FailedImport("Invalid response from CalDAV server")
    ELSE ImportResult(upstream.data.total_events, upstream.data.imported_count,
                      upstream.data.duplicate_count, upstream.data.skipped_count,
                      [i \in DOMAIN upstream.data.errors |->
                          ErrorName(upstream.data.errors[i])])

\* The calls of import_events: who imports what into which calendar.
ImportCalls ==
    [user : Users,
     caldav_path : {PathA1, PathB1, base_uri_path \o PathA1},
     ics_data : IcsFiles]

\* ICSImportService.import_events
ImportEvents(w) ==
    /\ At(w, "import_events", "request")
    /\ LET request == inflight[w].request
           outbound_api_key == settings.CALDAV_OUTBOUND_API_KEY
           post == [method |-> "POST", url |-> ImportUrl(request.caldav_path),
                    data |-> request.ics_data,
                    headers |-> ImportHeaders(request.user, outbound_api_key)]
       IN  IF outbound_api_key = ""
           THEN Answer(w, [result |-> FailedImport("CALDAV_OUTBOUND_API_KEY is not configured"),
                           calls |-> <<>>])
           ELSE \E upstream \in ImportOutcomes(request.ics_data) :
                Answer(w, [result |-> ImportResultOf(upstream),
                           calls |-> <<post @@ ("response" :> upstream)>>])
    /\ UNCHANGED <<settings, user_table, tokens, uuids, caldav>>

\* One worker imports files, with the outbound API key configured or not.
InitImport ==
    InitTokens({1}, {c \in SettingsChoices : c.CALDAV_CALLBACK_BASE_URL = None})
NextImport ==
    \/ \E w \in DOMAIN inflight : Receive(w, "import_events", ImportCalls)
    \/ \E w \in DOMAIN inflight : ImportEvents(w)
    \/ \E w \in DOMAIN inflight : Finish(w)
SpecImport == InitImport /\ [][NextImport]_vars

\* The finished call has made one POST: the file as its body, a URL under
\* the base URI that ends with the calendar's path and ?import, and the four
\* headers.
OnePost(w) ==
    LET request == inflight[w].request
        calls == inflight[w].response.calls
    IN  /\ Len(calls) = 1
        /\ calls[1].method = "POST"
        /\ calls[1].data = request.ics_data
        /\ StartsWith(calls[1].url, CALDAV_URL \o W_base)
        /\ EndsWith(calls[1].url, request.caldav_path \o W_import)
        /\ ~Contains(SubSeq(calls[1].url, Len(CALDAV_URL) + 2, Len(calls[1].url)), W_base)
        /\ DOMAIN calls[1].headers
             = {"X-Api-Key", "X-Calendars-Import", "X-Forwarded-User", "Content-Type"}
        /\ calls[1].headers["X-Api-Key"] = settings.CALDAV_OUTBOUND_API_KEY
        /\ calls[1].headers["X-Calendars-Import"] = settings.CALDAV_OUTBOUND_API_KEY
        /\ calls[1].headers["X-Forwarded-User"] = request.user.email
        /\ calls[1].headers["Content-Type"] = "text/calendar"

\* C20: with CALDAV_OUTBOUND_API_KEY configured, a call of import_events
\* makes exactly one POST, whatever the number of events in the file: the
\* file unchanged as body, a URL with the calendar's caldav_path under
\* /api/v1.0/caldav that ends with ?import, X-Api-Key and X-Calendars-Import
\* the outbound key, X-Forwarded-User the user's email, Content-Type
\* text/calendar; with the key empty it makes none and reports the error.
C20_OnePostPerImport ==
    \A w \in AnsweredBy("import_events") :
        IF settings.CALDAV_OUTBOUND_API_KEY # ""
        THEN OnePost(w)
        ELSE /\ inflight[w].response.calls = <<>>
             /\ inflight[w].response.result.errors
                  = <<"CALDAV_OUTBOUND_API_KEY is not configured">>

\* C20 as stated: every call of import_events makes the one POST.
C20_EveryImportPosts ==
    \A w \in AnsweredBy("import_events") : OnePost(w)

\* B imported a file of three events into B's calendar with one POST, and
\* the three were imported.
C20_Witness ==
    \E w \in AnsweredBy("import_events") :
        /\ inflight[w].request.user = UserB
        /\ inflight[w].request.caldav_path = PathB1
        /\ Len(inflight[w].request.ics_data) = 3
        /\ Len(inflight[w].response.calls) = 1
        /\ inflight[w].response.result.imported_count = 3


\* The call of import_events met a failure: the key is empty, or the POST
\* raised, or its answer has another status than 200 or a body that is not
\* JSON.
ImportFailed(w) ==
    \/ settings.CALDAV_OUTBOUND_API_KEY = ""
    \/ /\ inflight[w].response.calls # <<>>
       /\ LET upstream == inflight[w].response.calls[1].response
          IN  \/ upstream.raised
              \/ upstream.status_code # 200
              \/ ~upstream.json

\* C21: import_events answers a failure with a result: when the key is
\* empty (and then without a POST), when the POST raises, when the status is
\* not 200 or the body is not JSON, the ImportResult has imported_count 0
\* and at least one entry in errors.
C21_ImportFailureIsResult ==
    \A w \in AnsweredBy("import_events") :
        ImportFailed(w)
        => /\ inflight[w].response.result.imported_count = 0
           /\ Len(inflight[w].response.result.errors) >= 1
           /\ settings.CALDAV_OUTBOUND_API_KEY = "" => inflight[w].response.calls = <<>>

\* The plugin answered 207 with counts for a file of two events, and the
\* result reports a failure.
C21_Witness ==
    \E w \in AnsweredBy("import_events") :
        /\ inflight[w].response.calls # <<>>
        /\ ~inflight[w].response.calls[1].response.raised
        /\ inflight[w].response.calls[1].response.status_code = 207
        /\ Len(inflight[w].request.ics_data) = 2
        /\ inflight[w].response.result.errors = <<"CalDAV server error">>

\* C22: the errors of every ImportResult are at most MaxErrors entries, each
\* the summary, or the uid when there is no summary, of an event the plugin
\* reported as failed, never the error text the plugin reported.
C22_ErrorsAreFewEventNames ==
    \A w \in AnsweredBy("import_events") :
        LET errors == inflight[w].response.result.errors
            reported == IF inflight[w].response.calls # <<>>
                           /\ ~inflight[w].response.calls[1].response.raised
                           /\ inflight[w].response.calls[1].response.json
                        THEN inflight[w].response.calls[1].response.data.errors
                        ELSE <<>>
        IN  /\ Len(errors) <= MaxErrors
            /\ \A i \in DOMAIN errors :
                /\ \E j \in DOMAIN reported :
                    /\ reported[j].is_dict
                    /\ \/ "summary" \in reported[j].keys /\ errors[i] = reported[j].summary
                       \/ "uid" \in reported[j].keys /\ errors[i] = reported[j].uid
                /\ errors[i] # ""
                /\ \A j \in DOMAIN reported :
                    errors[i] # (IF reported[j].is_dict THEN reported[j].error
                                 ELSE reported[j].text)

-----------------------------------------------------------------------------
(* The users API: UserViewSet *)

EmailAlice == <<"a", "@", "x", ".", "y">>
EmailAlice_upper == <<"A", "@", "X", ".", "Y">>
EmailBobby == <<"b", "@", "x", ".", "y">>
EmailCarol == <<"c", "@", "x", ".", "y">>
EmailAlice_longer == <<"a", "a", "@", "x", ".", "y">>

\* The q parameters of the model: absent, shorter than five characters,
\* five characters without an at sign, and addresses.
UserQueries ==
    {<<>>, <<"a", "@", "x">>, <<"a", ".", "x", ".", "y">>,
     EmailAlice, EmailAlice_upper, EmailBobby, EmailCarol, EmailAlice_longer}

\* A logged-in client: request.user is the row with this primary key.
LoggedIn(id) == [is_authenticated |-> TRUE, id |-> id]

\* UserSerializer: the representation of a row.
UserData(row) ==
    [id |-> row.id, email |-> row.email, full_name |-> row.full_name,
     short_name |-> row.short_name, language |-> row.language]

\* UserViewSet.queryset: the active users.
ActiveUsers(table) == {id \in DOMAIN table : table[id].is_active}

\* email__iexact
IExact(a, b) == Lower(a) = Lower(b)

\* A plausible slip: the filter on is_active is left out.
GetQuerysetOfAllUsers(table, query) ==
    IF Len(query) = 0 \/ Len(query) < 5 THEN {}
    ELSE IF Contains(query, <<"@">>)
         THEN {id \in DOMAIN table : IExact(table[id].email, query)}
         ELSE {}

\* UserViewSet.get_queryset for the list action, before the slice: the
\* primary keys of the rows it selects.
GetQueryset(table, query) ==
    IF Len(query) = 0 \/ Len(query) < 5 THEN {}
    ELSE IF Contains(query, <<"@">>)
         THEN {id \in ActiveUsers(table) : IExact(table[id].email, query)}
         ELSE {}

\* [: limit] of the rows ordered by email.  The rows selected differ in
\* letter case only, and their order is the database collation's: any
\* limit of them may come first.
Sliced(ids, limit) ==
    {page \in SUBSET ids :
        Cardinality(page) = IF Cardinality(ids) < limit THEN Cardinality(ids) ELSE limit}

\* settings.LANGUAGES
LANGUAGES == {"en-us", "fr-fr"}

\* The bodies of PUT and PATCH: a language that is a choice, one that is
\* not, the representation of another user, a read-only field alone, and
\* a field the serializer does not have.
UpdateBodies ==
    {[language |-> "fr-fr"],
     [language |-> "xx"],
     [id |-> "u9", email |-> EmailCarol, full_name |-> "Other Name",
      short_name |-> "Other", language |-> "fr-fr"],
     [email |-> EmailCarol],
     [timezone |-> "Europe/Paris"]}

UserPks == {"u1", "u2", "u3", "u9"}

UsersRequests ==
    [route : {"list"}, method : {"GET"}, user : {AnonymousUser, LoggedIn("u1")},
     q : UserQueries, throttled : BOOLEAN]
    \cup [route : {"list"}, method : {"POST", "DELETE"},
          user : {AnonymousUser, LoggedIn("u1")}]
    \cup [route : {"me"}, method : {"GET"}, user : {AnonymousUser, LoggedIn("u1")}]
    \cup [route : {"detail"}, method : {"PUT", "PATCH"},
          user : {AnonymousUser, LoggedIn("u1")}, pk : UserPks, data : UpdateBodies]
    \cup [route : {"detail"}, method : {"GET", "DELETE"},
          user : {AnonymousUser, LoggedIn("u1")}, pk : UserPks]

\* The methods the router binds to an action of the viewset on each route.
BoundMethods(route) ==
    CASE route = "list" -> {"GET"}
      [] route = "me" -> {"GET"}
      [] route = "detail" -> {"PUT", "PATCH"}

\* APIView.initial and the handler lookup for every route: 401 for a
\* client that is not logged in, then 405 for a method without action.
UsersRefused(request) ==
    IF ~request.user.is_authenticated THEN {Response(401, "not_authenticated")}
    ELSE IF request.method \notin BoundMethods(request.route)
         THEN {Response(405, "method_not_allowed")}
         ELSE {}

\* A request whose method has no action, or whose client is anonymous.
UsersRefuse(w) ==
    /\ At(w, "users", "request")
    /\ \E response \in UsersRefused(inflight[w].request) : Answer(w, response)
    /\ UNCHANGED <<settings, user_table, tokens, uuids, caldav>>

\* UserViewSet.list
UsersList(w) ==
    LET request == inflight[w].request IN
    /\ At(w, "users", "request")
    /\ UsersRefused(request) = {}
    /\ request.route = "list"
    /\ IF request.throttled
       THEN Answer(w, Response(429, "throttled"))
       ELSE \E page \in Sliced(GetQueryset(user_table, request.q),
                               settings.API_USERS_LIST_LIMIT) :
               Answer(w, Response(200, {UserData(user_table[id]) : id \in page}))
    /\ UNCHANGED <<settings, user_table, tokens, uuids, caldav>>

\* UserViewSet.get_me
UsersGetMe(w) ==
    LET request == inflight[w].request IN
    /\ At(w, "users", "request")
    /\ UsersRefused(request) = {}
    /\ request.route = "me"
    /\ Answer(w, Response(200, UserData(user_table[request.user.id])))
    /\ UNCHANGED <<settings, user_table, tokens, uuids, caldav>>

\* A plausible slip: the object permission is not checked.
IsSelfForAnyone(request, obj) == TRUE

\* permissions.IsSelf.has_object_permission
IsSelf(request, obj) == obj.id = request.user.id

\* UpdateModelMixin.update up to the serializer: get_object selects the
\* row among the active users and checks the object permission.
UsersUpdateStart(w) ==
    LET request == inflight[w].request IN
    /\ At(w, "users", "request")
    /\ UsersRefused(request) = {}
    /\ request.route = "detail"
    /\ IF request.pk \notin ActiveUsers(user_table)
       THEN Answer(w, Response(404, "not_found"))
       ELSE IF ~IsSelf(request, user_table[request.pk])
            THEN Answer(w, Response(403, "permission_denied"))
            ELSE Proceed(w, "save", [instance |-> user_table[request.pk]])
    /\ UNCHANGED <<settings, user_table, tokens, uuids, caldav>>

\* UserSerializer.Meta.read_only_fields are dropped from the body, and so
\* is every key that is not a field.
ValidatedData(data) ==
    IF "language" \in DOMAIN data THEN [language |-> data.language] ELSE <<>>

\* The serializer validates the body, updates the instance it was given
\* and saves it: every column of the row is written.
UsersUpdateSave(w) ==
    LET request == inflight[w].request
        instance == inflight[w].locals.instance
        validated_data == ValidatedData(request.data)
        updated == [f \in DOMAIN instance |->
                        IF f \in DOMAIN validated_data THEN validated_data[f]
                        ELSE instance[f]]
    IN
    /\ At(w, "users", "save")
    /\ IF "language" \in DOMAIN validated_data /\ validated_data.language \notin LANGUAGES
       THEN /\ Answer(w, Response(400, "invalid_choice"))
            /\ UNCHANGED user_table
       ELSE /\ user_table' = [user_table EXCEPT ![instance.id] = updated]
            /\ Answer(w, Response(200, UserData(updated)))
    /\ UNCHANGED <<settings, tokens, uuids, caldav>>

\* The tables of the model: the client's own row, and two rows whose
\* address may be the client's in another letter case and which may be
\* inactive.  The email column is not unique.
UserTables ==
    {("u1" :> UserRow("u1", "sub-1", EmailAlice, "en-us", TRUE))
     @@ ("u2" :> UserRow("u2", "sub-2", email2, "en-us", active2))
     @@ ("u3" :> UserRow("u3", "sub-3", email3, "en-us", active3)) :
        email2 \in {EmailAlice_upper, EmailBobby, EmailAlice_longer},
        email3 \in {EmailBobby, EmailAlice},
        active2 \in BOOLEAN, active3 \in BOOLEAN}

InitUsers ==
    /\ settings \in [API_USERS_LIST_LIMIT : {1, 2}]
    /\ user_table \in UserTables
    /\ tokens = {}
    /\ uuids = 0
    /\ inflight = [w \in {1} |-> Idle]
    /\ caldav = <<>>

NextUsers ==
    \/ \E w \in DOMAIN inflight : Receive(w, "users", UsersRequests)
    \/ \E w \in DOMAIN inflight : UsersRefuse(w)
    \/ \E w \in DOMAIN inflight : UsersList(w)
    \/ \E w \in DOMAIN inflight : UsersGetMe(w)
    \/ \E w \in DOMAIN inflight : UsersUpdateStart(w)
    \/ \E w \in DOMAIN inflight : UsersUpdateSave(w)
    \/ \E w \in DOMAIN inflight : Finish(w)

SpecUsers == InitUsers /\ [][NextUsers]_vars

-----------------------------------------------------------------------------
(* Claims about the users API *)

\* A worker has answered a request of the users API.
UsersAnswered(w, route, methods) ==
    /\ inflight[w].phase = "response"
    /\ inflight[w].view = "users"
    /\ inflight[w].request.route = route
    /\ inflight[w].request.method \in methods

\* The active users whose email is the query, letter case apart.
ExactActiveMatches(q) ==
    {id \in DOMAIN user_table :
        user_table[id].is_active /\ Lower(user_table[id].email) = Lower(q)}

\* C23: the list of users is not empty only for a query of five characters
\* or more that contains an at sign; it then holds active users whose email
\* is the query up to letter case, nobody else, and as many of them as
\* there are, up to API_USERS_LIST_LIMIT.
C23_ListIsExactActiveMatches ==
    \A w \in DOMAIN inflight :
        UsersAnswered(w, "list", {"GET"}) /\ inflight[w].response.status = 200 =>
            LET q == inflight[w].request.q
                data == inflight[w].response.data
                limit == settings.API_USERS_LIST_LIMIT
                matches == ExactActiveMatches(q)
            IN
            /\ data # {} => Len(q) >= 5 /\ \E i \in DOMAIN q : q[i] = "@"
            /\ \A listed \in data :
                \E id \in matches : listed = UserData(user_table[id])
            /\ Cardinality(data) <= limit
            /\ Cardinality(data) < limit => Cardinality(data) = Cardinality(matches)

\* A query in upper case lists the two active users with that address,
\* stored in different letter cases, while a third user is inactive.
C23_Witness ==
    /\ UsersAnswered(1, "list", {"GET"})
    /\ inflight[1].request.q = EmailAlice_upper
    /\ inflight[1].response.status = 200
    /\ inflight[1].response.data =
        {UserData(user_table["u1"]), UserData(user_table["u2"])}
    /\ user_table["u2"].email = EmailAlice_upper
    /\ user_table["u3"].email = EmailAlice
    /\ ~user_table["u3"].is_active

\* The status of every answer to a request that is not a list, a get_me
\* or an update: 401 without login, 405 with.
UnboundAnswers ==
    \A w \in DOMAIN inflight :
        /\ inflight[w].phase = "response"
        /\ inflight[w].view = "users"
        /\ inflight[w].request.method \notin BoundMethods(inflight[w].request.route)
        => inflight[w].response.status =
            IF inflight[w].request.user.is_authenticated THEN 405 ELSE 401

\* The answer to a PUT or PATCH of a logged-in user on a record that is not
\* their own: 403 when the record is an active user's, 404 otherwise.
OtherRecordAnswers ==
    \A w \in DOMAIN inflight :
        /\ UsersAnswered(w, "detail", {"PUT", "PATCH"})
        /\ inflight[w].request.user.is_authenticated
        /\ inflight[w].request.pk # inflight[w].request.user.id
        => inflight[w].response.status =
            IF inflight[w].request.pk \in ActiveUsers(user_table) THEN 403 ELSE 404

\* A step changes the table only in the language of the row of the user
\* whose own PUT or PATCH a worker is serving; no row appears or goes.
OnlyOwnLanguageChanges ==
    /\ DOMAIN user_table' = DOMAIN user_table
    /\ \A id \in DOMAIN user_table :
        user_table'[id] # user_table[id] =>
            /\ \E w \in DOMAIN inflight :
                /\ inflight[w].view = "users"
                /\ inflight[w].request.method \in {"PUT", "PATCH"}
                /\ inflight[w].request.user = LoggedIn(id)
                /\ inflight[w].request.pk = id
            /\ \A f \in DOMAIN user_table[id] \ {"language"} :
                user_table'[id][f] = user_table[id][f]

-----------------------------------------------------------------------------
(* Claims about the token table as a whole *)

\* Two stored paths denote one calendar: the same calendar id under the
\* same email segment once URL decoded and letter case set aside.
SameCalendar(p, q) ==
    /\ Len(Components(p)) = 3 /\ Len(Components(q)) = 3
    /\ Lower(unquote(Components(p)[2])) = Lower(unquote(Components(q)[2]))
    /\ Components(p)[3] = Components(q)[3]

\* C25: each calendar has one token: no two active rows of the table are
\* for the same calendar, also when their caldav_path values differ in the
\* letter case or the percent-encoding of the email segment.
C25_OneTokenPerCalendar ==
    \A t1, t2 \in tokens :
        t1.is_active /\ t2.is_active /\ SameCalendar(t1.caldav_path, t2.caldav_path)
            => t1 = t2

-----------------------------------------------------------------------------
(* Replies of several attendees to one event *)

\* The links of the invitations sent to B and to C for A's event u1.
ReplyTokens ==
    {sign_object(SECRET_KEY, "rsvp", InvitationPayload),
     sign_object(SECRET_KEY, "rsvp", Payload(AllKeys, "u1", EmailC, EmailA))}
ReplyRequests == [action : DOMAIN PARTSTAT_VALUES, token : ReplyTokens]

\* Two workers answer the links of B and C, both invited to an event that
\* has not ended, with the outbound API key configured.
InitReply ==
    /\ settings \in Configured
    /\ user_table = RegisteredUsers
    /\ tokens = {}
    /\ uuids = 0
    /\ inflight = [w \in {1, 2} |-> Idle]
    /\ caldav = (EventHref :> Event("future", "future", <<EmailB, EmailC>>))
NextReply ==
    \/ \E w \in DOMAIN inflight : Receive(w, "rsvp", ReplyRequests)
    \/ \E w \in DOMAIN inflight : RsvpStart(w)
    \/ \E w \in DOMAIN inflight : RsvpFind(w)
    \/ \E w \in DOMAIN inflight : RsvpPut(w)
    \/ \E w \in DOMAIN inflight : Finish(w)
SpecReply == InitReply /\ [][NextReply]_vars

\* The worker's request is answered 200 in this step.
Succeeds(w) == Responds(w, "rsvp") /\ inflight'[w].response.status = 200

\* The stored PARTSTAT values of the attendees with this address.
StoredPartstats(events, email) ==
    UNION {{events[h].attendees[i].PARTSTAT :
                i \in {j \in DOMAIN events[h].attendees :
                          events[h].attendees[j].value = W_mailto \o email}} :
            h \in DOMAIN events}

\* A link with a valid action and token is taken up whatever was answered
\* before: its first step goes on to the lookup of the event.
LinkTakenUpAgain ==
    \A w \in DOMAIN inflight :
        /\ inflight[w].phase = "request"
        /\ inflight[w].view = "rsvp"
        /\ inflight'[w] # inflight[w]
        /\ ~InvalidLink(inflight[w].request)
        => inflight'[w].phase = "find"

\* The stored event changes only in the step that answers a request 200,
\* and then holds, for the attendee of that request's token, the PARTSTAT
\* of that request's action.
LastSuccessIsStored ==
    /\ caldav' # caldav => \E w \in DOMAIN inflight : Succeeds(w)
    /\ \A w \in DOMAIN inflight :
        Succeeds(w) =>
            StoredPartstats(caldav', inflight[w].request.token.value.email)
                = {PartstatOf(inflight[w].request.action)}

\* C26: an RSVP link is not used up: a request with a valid action and the
\* same token is processed again however often the token was used, and each
\* successful request leaves the attendee's stored PARTSTAT at the value of
\* its action, so that the stored value is that of the last success.
C26_TokenReusableLastWins ==
    [][LinkTakenUpAgain /\ LastSuccessIsStored]_vars

\* B's one link was followed twice, to accept and to decline; both requests
\* were answered 200, and the event has B declined and C still to answer.
C26_Witness ==
    /\ inflight[1].phase = "response" /\ inflight[2].phase = "response"
    /\ inflight[1].request.token.value = InvitationPayload
    /\ inflight[2].request.token = inflight[1].request.token
    /\ inflight[1].request.action = "accepted"
    /\ inflight[2].request.action = "declined"
    /\ inflight[1].response.status = 200
    /\ inflight[2].response.status = 200
    /\ caldav[EventHref].attendees[1] = Attendee(EmailB, "DECLINED")
    /\ caldav[EventHref].attendees[2] = Attendee(EmailC, "NEEDS-ACTION")

\* C27: when requests of different attendees interleave, a request answered
\* 200 leaves the PARTSTAT of every attendee other than its own as stored: no
\* answer given by another attendee is overwritten.
C27_NoReplyOverwritten ==
    [][\A w \in DOMAIN inflight :
        Succeeds(w) =>
            \A h \in DOMAIN caldav : \A i \in DOMAIN caldav[h].attendees :
                caldav[h].attendees[i].value
                        # W_mailto \o inflight[w].request.token.value.email
                    => caldav'[h].attendees[i].PARTSTAT
                            = caldav[h].attendees[i].PARTSTAT]_vars

-----------------------------------------------------------------------------
(* Claims about _update_attendee_partstat *)

\* C28: the event _update_attendee_partstat returns for the lookup of a
\* request differs from the stored one only in the PARTSTAT of the attendee
\* whose address is the email given: an attendee with another address, one
\* that contains the email included, keeps its PARTSTAT, every address is
\* kept, and there is no result when no attendee has the email.
C28_OnlyNamedAttendeeUpdated ==
    \A w \in DOMAIN inflight :
        At(w, "rsvp", "put") =>
            LET stored == caldav[inflight[w].locals.href].attendees
                updated == inflight[w].locals.updated_data.attendees
                email == inflight[w].request.token.value.email
            IN  /\ DOMAIN updated = DOMAIN stored
                /\ \E i \in DOMAIN stored : Lower(stored[i].value) = Lower(W_mailto \o email)
                /\ \A i \in DOMAIN stored :
                    /\ updated[i].value = stored[i].value
                    /\ Lower(stored[i].value) # Lower(W_mailto \o email)
                        => updated[i].PARTSTAT = stored[i].PARTSTAT

-----------------------------------------------------------------------------
(* send_invitation for every method and sequence number *)

\* The largest SEQUENCE of the events of the model.
MaxSequence == 3

W_PUBLISH == <<"P", "U", "B", "L", "I", "S", "H">>
W_COUNTER == <<"C", "O", "U", "N", "T", "E", "R">>

\* The calls of send_invitation: the methods of iTip in the spelling of
\* the constants and in lower case, no method, and events from their first
\* version to their MaxSequence-th revision.
InvitationCalls ==
    [sender_email : {W_mailto \o EmailA},
     recipient_email : {W_mailto \o EmailB},
     method : {METHOD_REQUEST, METHOD_CANCEL, METHOD_REPLY, W_PUBLISH, W_COUNTER,
               Lower(METHOD_CANCEL), Lower(METHOD_REPLY), <<>>},
     icalendar_data : {[ICalendar("u1", "future", W_mailto \o EmailA)
                            EXCEPT !.sequence = n] : n \in 0..MaxSequence}
                      \cup {ICalendar(None, "future", W_mailto \o EmailA)}]

\* CalendarInvitationService.send_invitation
SendInvitationCall(w) ==
    LET call == inflight[w].request IN
    /\ At(w, "send_invitation", "request")
    /\ \E delivered \in BOOLEAN :
        Answer(w, SendInvitation(call.sender_email, call.recipient_email,
                                 call.method, call.icalendar_data, delivered))
    /\ UNCHANGED <<settings, user_table, tokens, uuids, caldav>>

InitSend ==
    /\ settings \in InvitationSettings
    /\ user_table = RegisteredUsers
    /\ tokens = {}
    /\ uuids = 0
    /\ inflight = [w \in {1} |-> Idle]
    /\ caldav = <<>>
NextSend ==
    \/ \E w \in DOMAIN inflight : Receive(w, "send_invitation", InvitationCalls)
    \/ \E w \in DOMAIN inflight : SendInvitationCall(w)
    \/ \E w \in DOMAIN inflight : Finish(w)
SpecSend == InitSend /\ [][NextSend]_vars

\* The kind of email a method and a sequence number stand for.
Classified(method, sequence) ==
    CASE method = METHOD_CANCEL -> "cancel"
      [] method = METHOD_REPLY -> "reply"
      [] method \notin {METHOD_CANCEL, METHOD_REPLY} /\ sequence > 0 -> "update"
      [] OTHER -> "invitation"

\* The subject and the template of each kind of email.
SubjectOfKind ==
    [kind \in {"cancel", "reply", "update", "invitation"} |->
        CASE kind = "cancel" -> "email.subject.cancel"
          [] kind = "reply" -> "email.subject.reply"
          [] kind = "update" -> "email.subject.update"
          [] kind = "invitation" -> "email.subject.invitation"]
TemplateOfKind ==
    [kind \in {"cancel", "reply", "update", "invitation"} |->
        CASE kind = "cancel" -> "calendar_invitation_cancel"
          [] kind = "reply" -> "calendar_invitation_reply"
          [] kind = "update" -> "calendar_invitation_update"
          [] kind = "invitation" -> "calendar_invitation"]

\* C29: every email send_invitation sends has the subject and the template
\* of the kind its method and sequence number stand for (cancel for CANCEL,
\* reply for REPLY, update for any other method with SEQUENCE > 0, else
\* invitation), and the title, heading, body, badge and instructions built
\* by _build_template_context for it are those of the same kind.
C29_SameClassification ==
    \A w \in DOMAIN inflight :
        inflight[w].phase = "response" /\ inflight[w].view = "send_invitation" =>
            LET call == inflight[w].request
                kind == Classified(call.method, call.icalendar_data.sequence)
                sent == inflight[w].response.outbox
            IN  \A i \in DOMAIN sent :
                    /\ sent[i].subject = SubjectOfKind[kind]
                    /\ sent[i].template_prefix = TemplateOfKind[kind]
                    /\ \A block \in DOMAIN sent[i].context["content"] :
                        sent[i].context["content"][block].type_key = kind
                    /\ sent[i].context["instructions"].type_key = kind

\* The cancellation of an event at its second revision was sent: subject,
\* template and content are those of a cancellation, not of an update.
C29_Witness ==
    /\ inflight[1].phase = "response"
    /\ inflight[1].view = "send_invitation"
    /\ inflight[1].request.method = METHOD_CANCEL
    /\ inflight[1].request.icalendar_data.uid = "u1"
    /\ inflight[1].request.icalendar_data.sequence = 2
    /\ Len(inflight[1].response.outbox) = 1
    /\ inflight[1].response.outbox[1].template_prefix = "calendar_invitation_cancel"
    /\ inflight[1].response.outbox[1].context["content"]["title"].type_key = "cancel"

-----------------------------------------------------------------------------
(* OIDC login: the lookup of the existing user *)

\* QuerySet.get over the rows selected: the row when there is one,
\* DoesNotExist when there is none, MultipleObjectsReturned otherwise.
Get(table, ids) ==
    IF ids = {} THEN [outcome |-> "raised", exception |-> "DoesNotExist"]
    ELSE IF Cardinality(ids) = 1
         THEN [outcome |-> "returned", user |-> table[CHOOSE id \in ids : TRUE]]
         ELSE [outcome |-> "raised", exception |-> "MultipleObjectsReturned"]

Raised(result, exception) ==
    result.outcome = "raised" /\ result.exception = exception

ReturnedNone == [outcome |-> "none"]

\* UserManager.get_user_by_sub_or_email
GetUserBySubOrEmail(table, sub, email) ==
    LET by_sub == Get(table, {id \in DOMAIN table : table[id].sub = sub})
        with_email == {id \in DOMAIN table : table[id].email = email}
        by_email == Get(table, with_email)
    IN  IF ~Raised(by_sub, "DoesNotExist") THEN by_sub
        ELSE IF email = <<>> THEN ReturnedNone
        ELSE IF settings.OIDC_FALLBACK_TO_EMAIL_FOR_IDENTIFICATION
             THEN IF Raised(by_email, "DoesNotExist") THEN ReturnedNone ELSE by_email
        ELSE IF with_email # {} /\ ~settings.OIDC_ALLOW_DUPLICATE_EMAILS
             THEN [outcome |-> "raised", exception |-> "DuplicateEmailError"]
        ELSE ReturnedNone

\* OIDCAuthenticationBackend.get_existing_user: DuplicateEmailError becomes
\* SuspiciousOperation, any other exception goes on to the caller.
GetExistingUser(w) ==
    LET call == inflight[w].request
        result == GetUserBySubOrEmail(user_table, call.sub, call.email)
    IN
    /\ At(w, "get_existing_user", "request")
    /\ Answer(w, IF Raised(result, "DuplicateEmailError")
                 THEN [outcome |-> "raised", exception |-> "SuspiciousOperation"]
                 ELSE result)
    /\ UNCHANGED <<settings, user_table, tokens, uuids, caldav>>

\* The claims of the identity provider: a sub that is registered or not,
\* an email that is registered once, more than once or not at all, or none.
OidcClaims ==
    [sub : {"sub-1", "sub-2", "sub-9"},
     email : {<<>>, EmailAlice, EmailBobby, EmailCarol}]

\* The tables of the model.  The email column is not unique, and rows
\* written under other settings stay: two rows may hold one address.
OidcUserTables ==
    {("u1" :> UserRow("u1", "sub-1", EmailAlice, "en-us", TRUE))
     @@ ("u2" :> UserRow("u2", "sub-2", email2, "en-us", TRUE))
     @@ ("u3" :> UserRow("u3", "sub-3", email3, "en-us", active3)) :
        email2 \in {EmailAlice, EmailBobby},
        email3 \in {EmailAlice_upper, EmailBobby},
        active3 \in BOOLEAN}

InitOidc ==
    /\ settings \in [OIDC_FALLBACK_TO_EMAIL_FOR_IDENTIFICATION : BOOLEAN,
                     OIDC_ALLOW_DUPLICATE_EMAILS : BOOLEAN]
    /\ user_table \in OidcUserTables
    /\ tokens = {}
    /\ uuids = 0
    /\ inflight = [w \in {1} |-> Idle]
    /\ caldav = <<>>
NextOidc ==
    \/ \E w \in DOMAIN inflight : Receive(w, "get_existing_user", OidcClaims)
    \/ \E w \in DOMAIN inflight : GetExistingUser(w)
    \/ \E w \in DOMAIN inflight : Finish(w)
SpecOidc == InitOidc /\ [][NextOidc]_vars

\* C30: the lookup returns the user with the given sub when there is one;
\* otherwise, with an email given, a user with that email when the fallback
\* is enabled and one exists, SuspiciousOperation when the fallback is
\* disabled, the email is registered and duplicate emails are not allowed,
\* and None in every other case; with the fallback disabled it never returns
\* a user with another sub.
C30_SubThenEmailElseNone ==
    \A w \in DOMAIN inflight :
        inflight[w].phase = "response" /\ inflight[w].view = "get_existing_user" =>
            LET sub == inflight[w].request.sub
                email == inflight[w].request.email
                result == inflight[w].response
                fallback == settings.OIDC_FALLBACK_TO_EMAIL_FOR_IDENTIFICATION
                with_sub == {id \in DOMAIN user_table : user_table[id].sub = sub}
                with_email == {id \in DOMAIN user_table : user_table[id].email = email}
            IN  IF with_sub # {}
                THEN result.outcome = "returned" /\ result.user.sub = sub
                ELSE IF email # <<>> /\ fallback /\ with_email # {}
                THEN result.outcome = "returned" /\ result.user.email = email
                ELSE IF /\ email # <<>> /\ ~fallback /\ with_email # {}
                        /\ ~settings.OIDC_ALLOW_DUPLICATE_EMAILS
                THEN Raised(result, "SuspiciousOperation")
                ELSE result = ReturnedNone

====
